---- MODULE Spec2Model ----
(***************************************************************************)
(* A model of the nedb datastore: the serialized Executor, the ordered     *)
(* Index and the UniqueStringIndex, the Datastore operations that keep     *)
(* the indexes consistent, and the append-only Persistence layer.          *)
(*                                                                         *)
(* Documents are records [_id, a, b].  A field value is a record           *)
(* [arr, v]: undefined is the non-array with no content, a number n is     *)
(* the non-array <<n>>, an array of numbers is the array with elements v.  *)
(* Index keys are numbers; the key under which a non-sparse index stores   *)
(* an undefined field is UndefKey.                                         *)
(***************************************************************************)
EXTENDS Integers, Sequences, FiniteSets, TLC

\* ---------------------------------------------------------------------------
\* Bounds of the model
\* ---------------------------------------------------------------------------

\* number of insert, update, remove and compaction tasks pushed in a behaviour
\* of Spec: of an in-memory datastore, which starts empty, and of a persistent
\* datastore, which starts from a data file
MaxOps == 2

MaxFileOps == 1

\* number of loadDatabase calls in a behaviour of Spec
MaxLoads == 1

\* number of loadDatabase calls in a behaviour of SpecExec
MaxExecLoads == 2

\* number of tasks waiting in the executor when a call of Spec is made
MaxQueued == 1

\* number of find and compaction tasks pushed in a behaviour of SpecExec
MaxPush == 3

\* number of ensureIndex / removeIndex calls in a behaviour
MaxDirect == 1

\* number of ensureIndex / removeIndex calls and of insert tasks in a behaviour
\* of SpecIndex
MaxIndexCalls == 3

MaxIndexOps == 1

\* number of update tasks pushed in a behaviour of SpecUpsert
MaxUpsertOps == 2

\* number of setImmediate(_processNext) pending when a task function of
\* SpecCallback invokes its callback
MaxPending == 3

\* number of lines of the data passed to crashSafeWriteFile
MaxLines == 2

\* number of crashSafeWriteFile calls in a behaviour of SpecStorage
MaxWrites == 2

\* inserts and finds called in SpecIn
MaxInOps == 3

\* operations called in SpecThrow
MaxThrowOps == 2

\* inserts and finds called in SpecCandidates
MaxCandidateOps == 2

\* ensureIndex calls made in SpecCandidates
MaxCandidateIndexCalls == 1

\* finds and updates called in SpecTtl
MaxTtlOps == 1

\* candidates handed to a cursor in SpecProject
MaxProjectDocs == 2

\* operations pushed in SpecLive
MaxLiveOps == 2

\* inserts of documents without _id called in SpecNewId
MaxNewIdOps == 2

\* candidates handed to a cursor in SpecCursor, and the largest skip and limit
MaxCursorDocs == 4
MaxSkip == 3
MaxLimit == 3

\* lines of the short files treatRawData is given in SpecRaw
MaxRawLines == 4

\* lines put in front of a file to keep one corrupt line under the threshold
PaddingLines == 8

\* ---------------------------------------------------------------------------
\* Values and documents
\* ---------------------------------------------------------------------------

UndefKey == 0

Undefined == [arr |-> FALSE, v |-> <<>>]

Num(n) == [arr |-> FALSE, v |-> <<n>>]

Arr(s) == [arr |-> TRUE, v |-> s]

\* a Date, by its time in seconds
Date(secs) == [arr |-> FALSE, v |-> <<secs>>, date |-> TRUE]

isDate(val) == "date" \in DOMAIN val

\* the values of field a of the documents
ValsA == {Undefined, Num(1), Arr(<<>>), Arr(<<2, 1>>)}

\* the _id values
Ids == {"x", "y"}

Fields == {"a", "b"}

\* the documents: an _id and a field a; no document has a field b
Docs == [_id : Ids, a : ValsA]

\* a string
Str(s) == [arr |-> FALSE, v |-> <<s>>]

getDotValue(doc, fieldName) ==
    IF fieldName = "a" THEN doc.a
    ELSE IF fieldName = "_id" THEN Str(doc._id)
    ELSE Undefined

RECURSIVE SeqToSet(_)
SeqToSet(s) == IF s = <<>> THEN {} ELSE {Head(s)} \cup SeqToSet(Tail(s))

RECURSIVE toDateSafeUniqueFrom(_, _)
toDateSafeUniqueFrom(values, seen) ==
    IF values = <<>> THEN <<>>
    ELSE IF Head(values) \in seen
         THEN toDateSafeUniqueFrom(Tail(values), seen)
         ELSE <<Head(values)>> \o toDateSafeUniqueFrom(Tail(values), seen \cup {Head(values)})

toDateSafeUnique(values) ==
    IF Len(values) <= 1 THEN values ELSE toDateSafeUniqueFrom(values, {})

\* ---------------------------------------------------------------------------
\* The ordered multimap (AVL tree) used by Index: key -> sequence of documents
\* ---------------------------------------------------------------------------

EmptyTree == <<>>

TreeInsert(tree, unique, key, doc) ==
    IF key \in DOMAIN tree
    THEN IF unique
         THEN [ok |-> FALSE, tree |-> tree]
         ELSE [ok |-> TRUE, tree |-> [tree EXCEPT ![key] = Append(@, doc)]]
    ELSE [ok |-> TRUE,
          tree |-> [k \in (DOMAIN tree) \cup {key} |->
                       IF k = key THEN <<doc>> ELSE tree[k]]]

\* data without the object doc (checkValueEquality is ===): documents are
\* values here, and of two equal documents, which only a datastore without
\* its unique index on _id can hold, the one stored last is taken for doc
WithoutObject(data, doc) ==
    IF \A i \in 1..Len(data) : data[i] # doc THEN data
    ELSE LET last == CHOOSE i \in 1..Len(data) :
                         data[i] = doc /\ \A j \in (i + 1)..Len(data) : data[j] # doc
         IN SubSeq(data, 1, last - 1) \o SubSeq(data, last + 1, Len(data))

TreeDelete(tree, key, doc) ==
    IF key \notin DOMAIN tree THEN tree
    ELSE IF Len(tree[key]) > 1
         THEN [tree EXCEPT ![key] = WithoutObject(@, doc)]
         ELSE [k \in (DOMAIN tree) \ {key} |-> tree[k]]

TreeSearch(tree, key) ==
    IF key \in DOMAIN tree THEN tree[key] ELSE <<>>

\* ---------------------------------------------------------------------------
\* Index (ordered, AVL-backed).  An index is a record
\*   [fieldName, kind, unique, sparse, tree, map]
\* kind "avl" uses tree, kind "ustr" (UniqueStringIndex) uses map, the
\* documents of a JavaScript Map in insertion order.
\* Every operation that can throw returns [ok, ix]: ok = FALSE stands for the
\* thrown error (errorType 'uniqueViolated') and ix is the index as the throw
\* leaves it.
\* ---------------------------------------------------------------------------

NewIndex(fieldName, unique, sparse) ==
    [fieldName |-> fieldName, kind |-> "avl", unique |-> unique,
     sparse |-> sparse, tree |-> EmptyTree, map |-> <<>>]

NewUniqueStringIndex ==
    [fieldName |-> "_id", kind |-> "ustr", unique |-> TRUE,
     sparse |-> FALSE, tree |-> EmptyTree, map |-> <<>>]

KeyOf(fieldValue) ==
    IF fieldValue.v = <<>> THEN UndefKey ELSE fieldValue.v[1]

RECURSIVE RollbackValues(_, _, _, _)
RollbackValues(tree, values, totalRevertible, doc) ==
    IF totalRevertible = 0 THEN tree
    ELSE RollbackValues(TreeDelete(tree, values[totalRevertible], doc),
                        values, totalRevertible - 1, doc)

RECURSIVE InsertValues(_, _, _, _, _)
InsertValues(tree, unique, values, i, doc) ==
    IF i > Len(values) THEN [ok |-> TRUE, tree |-> tree]
    ELSE LET r == TreeInsert(tree, unique, values[i], doc)
         IN IF r.ok
            THEN InsertValues(r.tree, unique, values, i + 1, doc)
            ELSE [ok |-> FALSE, tree |-> RollbackValues(tree, values, i - 1, doc)]

\* an index that leaves no document out
leavesOutNone(ix, fieldValue) == FALSE

\* Index.insert returns at once, the tree untouched, if
\* (fieldValue === undefined && this.sparse)
leavesOut(ix, fieldValue) == fieldValue = Undefined /\ ix.sparse

\* Index.insert that never passes the unique option to the tree
Index_insertUnchecked(ix, doc) ==
    LET fieldValue == getDotValue(doc, ix.fieldName)
    IN IF leavesOut(ix, fieldValue)
       THEN [ok |-> TRUE, ix |-> ix]
       ELSE IF ~fieldValue.arr
            THEN LET r == TreeInsert(ix.tree, FALSE, KeyOf(fieldValue), doc)
                 IN [ok |-> r.ok, ix |-> [ix EXCEPT !.tree = r.tree]]
            ELSE LET r == InsertValues(ix.tree, FALSE,
                                       toDateSafeUnique(fieldValue.v), 1, doc)
                 IN [ok |-> r.ok, ix |-> [ix EXCEPT !.tree = r.tree]]

Index_insert(ix, doc) ==
    LET fieldValue == getDotValue(doc, ix.fieldName)
    IN IF leavesOut(ix, fieldValue)
       THEN [ok |-> TRUE, ix |-> ix]
       ELSE IF ~fieldValue.arr
            THEN LET r == TreeInsert(ix.tree, ix.unique, KeyOf(fieldValue), doc)
                 IN [ok |-> r.ok, ix |-> [ix EXCEPT !.tree = r.tree]]
            ELSE LET r == InsertValues(ix.tree, ix.unique,
                                       toDateSafeUnique(fieldValue.v), 1, doc)
                 IN [ok |-> r.ok, ix |-> [ix EXCEPT !.tree = r.tree]]

RECURSIVE DeleteValues(_, _, _)
DeleteValues(tree, values, doc) ==
    IF values = <<>> THEN tree
    ELSE DeleteValues(TreeDelete(tree, Head(values), doc), Tail(values), doc)

Index_remove(ix, doc) ==
    LET fieldValue == getDotValue(doc, ix.fieldName)
    IN IF fieldValue = Undefined /\ ix.sparse
       THEN ix
       ELSE IF fieldValue.arr
            THEN [ix EXCEPT !.tree = DeleteValues(@, toDateSafeUnique(fieldValue.v), doc)]
            ELSE [ix EXCEPT !.tree = TreeDelete(@, KeyOf(fieldValue), doc)]

RECURSIVE Index_removeDocs(_, _)
Index_removeDocs(ix, docs) ==
    IF docs = <<>> THEN ix
    ELSE Index_removeDocs(Index_remove(ix, Head(docs)), Tail(docs))

\* remove docs[n], docs[n-1], ..., docs[1]
RECURSIVE Index_removeBackwards(_, _, _)
Index_removeBackwards(ix, docs, n) ==
    IF n = 0 THEN ix
    ELSE Index_removeBackwards(Index_remove(ix, docs[n]), docs, n - 1)

RECURSIVE Index_insertFrom(_, _, _)
Index_insertFrom(ix, docs, i) ==
    IF i > Len(docs) THEN [ok |-> TRUE, ix |-> ix]
    ELSE LET r == Index_insert(ix, docs[i])
         IN IF r.ok
            THEN Index_insertFrom(r.ix, docs, i + 1)
            ELSE [ok |-> FALSE, ix |-> Index_removeBackwards(r.ix, docs, i - 1)]

Index_insertMultipleDocs(ix, docs) == Index_insertFrom(ix, docs, 1)

OldDocs(pairs) == [i \in 1..Len(pairs) |-> pairs[i].oldDoc]

NewDocs(pairs) == [i \in 1..Len(pairs) |-> pairs[i].newDoc]

SwapPairs(pairs) ==
    [i \in 1..Len(pairs) |-> [oldDoc |-> pairs[i].newDoc, newDoc |-> pairs[i].oldDoc]]

\* re-insert the old documents after a failed update; an error thrown here
\* leaves the catch block at once
RECURSIVE Index_reinsert(_, _)
Index_reinsert(ix, docs) ==
    IF docs = <<>> THEN ix
    ELSE LET r == Index_insert(ix, Head(docs))
         IN IF r.ok THEN Index_reinsert(r.ix, Tail(docs)) ELSE r.ix

RECURSIVE Index_updateInsertFrom(_, _, _)
Index_updateInsertFrom(ix, pairs, i) ==
    IF i > Len(pairs) THEN [ok |-> TRUE, ix |-> ix]
    ELSE LET r == Index_insert(ix, pairs[i].newDoc)
         IN IF r.ok
            THEN Index_updateInsertFrom(r.ix, pairs, i + 1)
            ELSE [ok |-> FALSE,
                  ix |-> Index_reinsert(
                             Index_removeBackwards(r.ix, NewDocs(pairs), i - 1),
                             OldDocs(pairs))]

Index_updateMultipleDocs(ix, pairs) ==
    Index_updateInsertFrom(Index_removeDocs(ix, OldDocs(pairs)), pairs, 1)

Index_revertUpdate(ix, pairs) == Index_updateMultipleDocs(ix, SwapPairs(pairs))

Index_reset(ix, docs) ==
    Index_insertMultipleDocs([ix EXCEPT !.tree = EmptyTree], docs)

\* the _ids in the order of compareThings on strings
SortedIds == <<"x", "y">>

IdRank(id) == CHOOSE n \in 1..Len(SortedIds) : SortedIds[n] = id

\* compareThings on two keys of one tree: the keys of an index on _id are
\* strings, the keys of an index on another field undefined or numbers
KeyBefore(x, y, strings) == IF strings THEN IdRank(x) <= IdRank(y) ELSE x <= y

RECURSIVE FlattenTree(_, _, _)
FlattenTree(tree, keys, strings) ==
    IF keys = {} THEN <<>>
    ELSE LET k == CHOOSE x \in keys : \A y \in keys : KeyBefore(x, y, strings)
         IN tree[k] \o FlattenTree(tree, keys \ {k}, strings)

Index_getAll(ix) == FlattenTree(ix.tree, DOMAIN ix.tree, ix.fieldName = "_id")

Index_getMatching(ix, key) == TreeSearch(ix.tree, key)

\* ---------------------------------------------------------------------------
\* UniqueStringIndex, the index on _id
\* ---------------------------------------------------------------------------

MapHas(map, id) == \E i \in 1..Len(map) : map[i]._id = id

MapSet(map, doc) ==
    IF MapHas(map, doc._id)
    THEN [i \in 1..Len(map) |-> IF map[i]._id = doc._id THEN doc ELSE map[i]]
    ELSE Append(map, doc)

MapDelete(map, id) == SelectSeq(map, LAMBDA d : d._id # id)

\* _res[doc._id] = doc for every document of docs: a known _id keeps its place
RECURSIVE CollectById(_, _)
CollectById(res, docs) ==
    IF docs = <<>> THEN res
    ELSE CollectById(MapSet(res, Head(docs)), Tail(docs))

\* Index.getMatching of an array of values: the documents under any of the
\* values, each _id once
RECURSIVE Index_getMatchingEach(_, _, _)
Index_getMatchingEach(ix, values, res) ==
    IF values = <<>> THEN res
    ELSE Index_getMatchingEach(ix, Tail(values),
                               CollectById(res, TreeSearch(ix.tree, Head(values))))

\* Index.getBetweenBounds for {$gte: gte, $lte: lte}: the documents of the
\* keys in the bounds, in the order of the keys, a document once for each of
\* its keys
RECURSIVE Index_getBetweenBounds(_, _, _)
Index_getBetweenBounds(ix, gte, lte) ==
    IF gte > lte THEN <<>>
    ELSE TreeSearch(ix.tree, gte) \o Index_getBetweenBounds(ix, gte + 1, lte)

\* delete the keys of docs[n], ..., docs[1]
RECURSIVE MapDeleteBackwards(_, _, _)
MapDeleteBackwards(map, docs, n) ==
    IF n = 0 THEN map
    ELSE MapDeleteBackwards(MapDelete(map, docs[n]._id), docs, n - 1)

RECURSIVE USI_insertFrom(_, _, _)
USI_insertFrom(map, docs, i) ==
    IF i > Len(docs) THEN [ok |-> TRUE, map |-> map]
    ELSE IF MapHas(map, docs[i]._id)
         THEN [ok |-> FALSE, map |-> MapDeleteBackwards(map, docs, i - 1)]
         ELSE USI_insertFrom(MapSet(map, docs[i]), docs, i + 1)

USI_insert(ix, docs) ==
    LET r == USI_insertFrom(ix.map, docs, 1)
    IN [ok |-> r.ok, ix |-> [ix EXCEPT !.map = r.map]]

RECURSIVE USI_removeFrom(_, _)
USI_removeFrom(map, docs) ==
    IF docs = <<>> THEN map
    ELSE USI_removeFrom(MapDelete(map, Head(docs)._id), Tail(docs))

USI_remove(ix, docs) == [ix EXCEPT !.map = USI_removeFrom(@, docs)]

USI_update(ix, pairs) ==
    LET removed == USI_removeFrom(ix.map, OldDocs(pairs))
        r == USI_insertFrom(removed, NewDocs(pairs), 1)
    IN IF r.ok
       THEN [ok |-> TRUE, ix |-> [ix EXCEPT !.map = r.map]]
       ELSE [ok |-> FALSE,
             ix |-> [ix EXCEPT !.map = USI_insertFrom(r.map, OldDocs(pairs), 1).map]]

USI_revertUpdate(ix, pairs) == USI_update(ix, SwapPairs(pairs))

USI_reset(ix, docs) == USI_insert([ix EXCEPT !.map = <<>>], docs)

USI_getAll(ix) == ix.map

USI_getMatching(ix, id) == SelectSeq(ix.map, LAMBDA d : d._id = id)

RECURSIVE USI_getMatchingEach(_, _)
USI_getMatchingEach(ix, ids) ==
    IF ids = <<>> THEN <<>>
    ELSE USI_getMatching(ix, Head(ids)) \o USI_getMatchingEach(ix, Tail(ids))

\* UniqueStringIndex.getMatching(valOrValues) for any argument: an array is
\* looked up element by element, anything else is itself the key given to
\* Map.get, and an object is the key of no document.  The argument is
\* [kind |-> "string", ids |-> <<id>>], [kind |-> "array", ids |-> ids] or
\* [kind |-> "object", ids |-> ids] for the object {$in: ids}.
USI_getMatchingAny(ix, valOrValues) ==
    CASE valOrValues.kind = "array" -> USI_getMatchingEach(ix, valOrValues.ids)
      [] valOrValues.kind = "string" -> USI_getMatching(ix, valOrValues.ids[1])
      [] OTHER -> <<>>

\* ---------------------------------------------------------------------------
\* The NedbIndex interface: dispatch on the implementation
\* ---------------------------------------------------------------------------

IxInsert(ix, doc) ==
    IF ix.kind = "ustr" THEN USI_insert(ix, <<doc>>) ELSE Index_insert(ix, doc)

IxInsertDocs(ix, docs) ==
    IF ix.kind = "ustr" THEN USI_insert(ix, docs) ELSE Index_insertMultipleDocs(ix, docs)

IxRemove(ix, doc) ==
    IF ix.kind = "ustr" THEN USI_remove(ix, <<doc>>) ELSE Index_remove(ix, doc)

IxUpdate(ix, pairs) ==
    IF ix.kind = "ustr" THEN USI_update(ix, pairs) ELSE Index_updateMultipleDocs(ix, pairs)

IxRevertUpdate(ix, pairs) ==
    IF ix.kind = "ustr" THEN USI_revertUpdate(ix, pairs) ELSE Index_revertUpdate(ix, pairs)

IxReset(ix, docs) ==
    IF ix.kind = "ustr" THEN USI_reset(ix, docs) ELSE Index_reset(ix, docs)

IxGetAll(ix) ==
    IF ix.kind = "ustr" THEN USI_getAll(ix) ELSE Index_getAll(ix)

\* getMatching(valOrValues); to Index an object is the key of no document too
IxGetMatching(ix, valOrValues) ==
    IF ix.kind = "ustr" THEN USI_getMatchingAny(ix, valOrValues)
    ELSE CASE valOrValues.kind = "array" -> Index_getMatchingEach(ix, valOrValues.ids, <<>>)
           [] valOrValues.kind = "string" -> Index_getMatching(ix, valOrValues.ids[1])
           [] OTHER -> <<>>

\* ---------------------------------------------------------------------------
\* Datastore: operations over all indexes.  ixs is Object.values(this.indexes),
\* the indexes in creation order, the _id index first.
\* ---------------------------------------------------------------------------

\* addToIndexes without its rollback
RemoveFromNone(ixs, doc, n) == ixs

\* allIndexes[n].remove(doc), ..., allIndexes[1].remove(doc)
RECURSIVE RemoveFromFirst(_, _, _)
RemoveFromFirst(ixs, doc, n) ==
    IF n = 0 THEN ixs
    ELSE RemoveFromFirst([ixs EXCEPT ![n] = IxRemove(@, doc)], doc, n - 1)

RECURSIVE addToIndexesFrom(_, _, _)
addToIndexesFrom(ixs, doc, i) ==
    IF i > Len(ixs) THEN [ok |-> TRUE, ixs |-> ixs]
    ELSE LET r == IxInsert(ixs[i], doc)
         IN IF r.ok
            THEN addToIndexesFrom([ixs EXCEPT ![i] = r.ix], doc, i + 1)
            ELSE [ok |-> FALSE,
                  ixs |-> RemoveFromFirst([ixs EXCEPT ![i] = r.ix], doc, i - 1)]

addToIndexes(ixs, doc) == addToIndexesFrom(ixs, doc, 1)

removeFromIndexes(ixs, doc) == [i \in 1..Len(ixs) |-> IxRemove(ixs[i], doc)]

\* _removeFromIndexes(docs[n]), ..., _removeFromIndexes(docs[1])
RECURSIVE removeDocsBackwards(_, _, _)
removeDocsBackwards(ixs, docs, n) ==
    IF n = 0 THEN ixs
    ELSE removeDocsBackwards(removeFromIndexes(ixs, docs[n]), docs, n - 1)

RECURSIVE addMultipleDocsFrom(_, _, _)
addMultipleDocsFrom(ixs, docs, i) ==
    IF i > Len(docs) THEN [ok |-> TRUE, ixs |-> ixs]
    ELSE LET r == addToIndexes(ixs, docs[i])
         IN IF r.ok
            THEN addMultipleDocsFrom(r.ixs, docs, i + 1)
            ELSE [ok |-> FALSE, ixs |-> removeDocsBackwards(r.ixs, docs, i - 1)]

addMultipleDocsToIndexes(ixs, docs) == addMultipleDocsFrom(ixs, docs, 1)

\* _updateIndexes without its rollback
RevertNothing(ixs, pairs, n) == ixs

\* allIndexes[n].revertUpdate(pairs), ..., allIndexes[1].revertUpdate(pairs);
\* an error thrown by a revertUpdate ends the loop
RECURSIVE RevertFromFirst(_, _, _)
RevertFromFirst(ixs, pairs, n) ==
    IF n = 0 THEN ixs
    ELSE LET r == IxRevertUpdate(ixs[n], pairs)
         IN IF r.ok
            THEN RevertFromFirst([ixs EXCEPT ![n] = r.ix], pairs, n - 1)
            ELSE [ixs EXCEPT ![n] = r.ix]

RECURSIVE updateIndexesFrom(_, _, _)
updateIndexesFrom(ixs, pairs, i) ==
    IF i > Len(ixs) THEN [ok |-> TRUE, ixs |-> ixs]
    ELSE LET r == IxUpdate(ixs[i], pairs)
         IN IF r.ok
            THEN updateIndexesFrom([ixs EXCEPT ![i] = r.ix], pairs, i + 1)
            ELSE [ok |-> FALSE,
                  ixs |-> RevertFromFirst([ixs EXCEPT ![i] = r.ix], pairs, i - 1)]

updateIndexes(ixs, pairs) == updateIndexesFrom(ixs, pairs, 1)

\* resetIndexes(docs): index.reset(docs) on each index in order; a throw
\* leaves the later indexes untouched
RECURSIVE resetIndexesFrom(_, _, _)
resetIndexesFrom(ixs, docs, i) ==
    IF i > Len(ixs) THEN [ok |-> TRUE, ixs |-> ixs]
    ELSE LET r == IxReset(ixs[i], docs)
         IN IF r.ok
            THEN resetIndexesFrom([ixs EXCEPT ![i] = r.ix], docs, i + 1)
            ELSE [ok |-> FALSE, ixs |-> [ixs EXCEPT ![i] = r.ix]]

resetIndexes(ixs, docs) == resetIndexesFrom(ixs, docs, 1)

HasIndex(ixs, fieldName) == \E i \in 1..Len(ixs) : ixs[i].fieldName = fieldName

IndexPos(ixs, fieldName) == CHOOSE i \in 1..Len(ixs) : ixs[i].fieldName = fieldName

\* this.indexes._id.getAll(); a datastore without an index on _id throws a
\* TypeError here, which every caller models where it calls
getAllData(ixs) == IxGetAll(ixs[IndexPos(ixs, "_id")])

\* ---------------------------------------------------------------------------
\* Queries and update queries
\*   [qt |-> "all"]    {}
\*   [qt |-> "id"]     {_id: id}
\*   [qt |-> "field"]  {f: k} with k a number
\*   [qt |-> "where"]  {$where: fn}, fn throws on the document whose _id is
\*                     id and returns true on every other document
\* ---------------------------------------------------------------------------

QAll == [qt |-> "all", id |-> "", f |-> "a", k |-> 0]

QId(id) == [qt |-> "id", id |-> id, f |-> "a", k |-> 0]

QField(f, k) == [qt |-> "field", id |-> "", f |-> f, k |-> k]

QWhere(id) == [qt |-> "where", id |-> id, f |-> "a", k |-> 0]

\* {_id: {$in: ids}}
QIdIn(ids) == [qt |-> "idin", id |-> "", f |-> "a", k |-> 0, ids |-> ids]

\* the $in queries of SpecIn: the same ids in both orders, one id, none
InQueries == {QIdIn(<<"x", "y">>), QIdIn(<<"y", "x">>), QIdIn(<<"y">>), QIdIn(<<>>)}

\* {f: {$in: ks}}
QFieldIn(f, ks) == [qt |-> "fieldin", id |-> "", f |-> f, k |-> 0, ks |-> ks, gte |-> 0, lte |-> 0]

\* {f: {$gte: gte, $lte: lte}}
QBounds(f, gte, lte) ==
    [qt |-> "bounds", id |-> "", f |-> f, k |-> 0, ks |-> <<>>, gte |-> gte, lte |-> lte]

\* the $in and range queries on field a
FieldQueries == {QFieldIn("a", <<1, 2>>), QBounds("a", 1, 2), QBounds("a", 2, 2)}

\* query._id as getCandidates reads it
QueryIdValue(query) ==
    IF query.qt = "idin" THEN [kind |-> "object", ids |-> query.ids]
    ELSE [kind |-> "string", ids |-> <<query.id>>]

\* the queries of the data operations: {}, {_id: 'x'}, {a: 1}, a $where
\* that throws on document y, {_id: {$in: ['x']}}
Queries ==
    {QAll, QId("x"), QField("a", 1), QWhere("y"), QIdIn(<<"x">>)}

\* "true", "false", or "throws" when the evaluation raises an error
matchQuery(doc, query) ==
    CASE query.qt = "all" -> "true"
      [] query.qt = "id" -> IF doc._id = query.id THEN "true" ELSE "false"
      [] query.qt = "idin" ->
            IF \E i \in 1..Len(query.ids) : query.ids[i] = doc._id
            THEN "true" ELSE "false"
      [] query.qt = "field" ->
            LET objValue == getDotValue(doc, query.f)
            IN IF \E i \in 1..Len(objValue.v) : objValue.v[i] = query.k
               THEN "true" ELSE "false"
      [] query.qt = "fieldin" ->
            LET objValue == getDotValue(doc, query.f)
            IN IF \E i \in 1..Len(objValue.v) : \E j \in 1..Len(query.ks) :
                      objValue.v[i] = query.ks[j]
               THEN "true" ELSE "false"
      [] query.qt = "bounds" ->
            LET objValue == getDotValue(doc, query.f)
            IN IF \E i \in 1..Len(objValue.v) :
                      query.gte <= objValue.v[i] /\ objValue.v[i] <= query.lte
               THEN "true" ELSE "false"
      [] OTHER -> IF doc._id = query.id THEN "throws" ELSE "true"

\* [ut |-> "set"]  {$set: {f: val}};  [ut |-> "badkey"]  {$set: {'$bad': 1}};
\* [ut |-> "setId"]  {$set: {_id: id}};  [ut |-> "replace"]  {_id: id, a: val}
USet(f, val) == [ut |-> "set", f |-> f, val |-> val, id |-> ""]

UBadKey == [ut |-> "badkey", f |-> "a", val |-> Undefined, id |-> ""]

USetId(id) == [ut |-> "setId", f |-> "_id", val |-> Undefined, id |-> id]

UReplace(id, val) == [ut |-> "replace", f |-> "a", val |-> val, id |-> id]

UpdateQueries ==
    {USet("a", val) : val \in ValsA} \cup {UBadKey, USetId("y"), UReplace("y", Num(1))}

\* the document modifyDoc has built when it reaches its last test: the
\* update query itself with the _id of doc, or the clone of doc with the
\* modifiers applied
modifiedDoc(doc, updateQuery) ==
    CASE updateQuery.ut = "replace" -> [_id |-> doc._id, a |-> updateQuery.val]
      [] updateQuery.ut = "setId" -> [doc EXCEPT !._id = updateQuery.id]
      [] OTHER -> [doc EXCEPT !.a = updateQuery.val]

\* the last test of modifyDoc: the _id has changed
idChanged(doc, newDoc) == doc._id # newDoc._id

\* modifyDoc(doc, updateQuery): [ok, doc, err]; it throws when the update
\* query is a document with another _id (changeId), when checkObject rejects
\* the modified document (modifier), when the _id has changed (changeId)
modifyDoc(doc, updateQuery) ==
    LET newDoc == modifiedDoc(doc, updateQuery)
    IN IF updateQuery.ut = "replace" /\ updateQuery.id # doc._id
       THEN [ok |-> FALSE, doc |-> doc, err |-> "changeId"]
       ELSE IF updateQuery.ut = "badkey"
       THEN [ok |-> FALSE, doc |-> doc, err |-> "modifier"]
       ELSE IF idChanged(doc, newDoc)
       THEN [ok |-> FALSE, doc |-> doc, err |-> "changeId"]
       ELSE [ok |-> TRUE, doc |-> newDoc, err |-> "none"]

\* ---------------------------------------------------------------------------
\* Persistence: the records of the data file
\* ---------------------------------------------------------------------------

\* expireAfterSeconds of an index created without that option
NoExpire == -1

\* the expireAfterSeconds value used for TTL indexes
ExpireSecs == 1

NoDoc == [_id |-> "", a |-> Undefined]

DocRec(doc) ==
    [t |-> "doc", doc |-> doc, fieldName |-> "", unique |-> FALSE,
     sparse |-> FALSE, expire |-> NoExpire]

DeletedRec(id) ==
    [t |-> "deleted", doc |-> [NoDoc EXCEPT !._id = id], fieldName |-> "",
     unique |-> FALSE, sparse |-> FALSE, expire |-> NoExpire]

IndexCreatedRec(fieldName, unique, sparse, expire) ==
    [t |-> "indexCreated", doc |-> NoDoc, fieldName |-> fieldName,
     unique |-> unique, sparse |-> sparse, expire |-> expire]

IndexRemovedRec(fieldName) ==
    [t |-> "indexRemoved", doc |-> NoDoc, fieldName |-> fieldName,
     unique |-> FALSE, sparse |-> FALSE, expire |-> NoExpire]

\* a line deserialize throws on
CorruptRec ==
    [t |-> "corrupt", doc |-> NoDoc, fieldName |-> "", unique |-> FALSE,
     sparse |-> FALSE, expire |-> NoExpire]

DocRecs(docs) == [i \in 1..Len(docs) |-> DocRec(docs[i])]

\* the $$indexCreated lines persistCachedDatabase writes: fieldName, unique
\* and sparse of every index but _id
RECURSIVE IndexRecs(_)
IndexRecs(ixs) ==
    IF ixs = <<>> THEN <<>>
    ELSE (IF Head(ixs).fieldName # "_id"
          THEN <<IndexCreatedRec(Head(ixs).fieldName, Head(ixs).unique,
                                 Head(ixs).sparse, NoExpire)>>
          ELSE <<>>) \o IndexRecs(Tail(ixs))

persistCachedDatabasePayload(ixs) == DocRecs(getAllData(ixs)) \o IndexRecs(ixs)

\* indexes[fieldName] = def on a JavaScript object: an existing key keeps its
\* position, a new key goes last
DefSet(defs, def) ==
    IF \E i \in 1..Len(defs) : defs[i].fieldName = def.fieldName
    THEN [i \in 1..Len(defs) |->
             IF defs[i].fieldName = def.fieldName THEN def ELSE defs[i]]
    ELSE Append(defs, def)

DefDelete(defs, fieldName) == SelectSeq(defs, LAMBDA d : d.fieldName # fieldName)

\* the loop of treatRawData over the lines.  if (doc._id) takes a document or
\* a tombstone for one only when its _id is truthy: a record whose _id is the
\* empty string falls through to the tests for $$indexCreated and
\* $$indexRemoved and changes nothing.
RECURSIVE treatRawDataFrom(_, _, _)
treatRawDataFrom(lines, dataById, indexDefs) ==
    IF lines = <<>> THEN [data |-> dataById, indexes |-> indexDefs]
    ELSE LET rec == Head(lines)
         IN IF rec.t = "corrupt"
            THEN treatRawDataFrom(Tail(lines), dataById, indexDefs)
            ELSE IF rec.t \in {"doc", "deleted"}
            THEN IF rec.doc._id # ""
                 THEN IF rec.t = "deleted"
                      THEN treatRawDataFrom(Tail(lines), MapDelete(dataById, rec.doc._id), indexDefs)
                      ELSE treatRawDataFrom(Tail(lines), MapSet(dataById, rec.doc), indexDefs)
                 ELSE treatRawDataFrom(Tail(lines), dataById, indexDefs)
            ELSE IF rec.t = "indexCreated"
                 THEN treatRawDataFrom(Tail(lines), dataById, DefSet(indexDefs, rec))
                 ELSE treatRawDataFrom(Tail(lines), dataById, DefDelete(indexDefs, rec.fieldName))

\* corruptAlertThreshold, in percent
CorruptAlertThreshold == 10

\* the lines of rawData that count as corrupt; the blank line that ends the
\* file is one of rawData.split and makes up for the count starting below zero
totalCorrupt(rawData) == Len(SelectSeq(rawData, LAMBDA rec : rec.t = "corrupt"))

\* treatRawData throws: (totalCorrupt / lines.length) > corruptAlertThreshold
tooCorrupt(rawData) ==
    100 * totalCorrupt(rawData) > CorruptAlertThreshold * (Len(rawData) + 1)

treatRawData(rawData) == treatRawDataFrom(rawData, <<>>, <<>>)

\* this.db.indexes[key] = new Index(def) for every index definition of the file
RECURSIVE RecreateIndexes(_, _)
RecreateIndexes(ixs, defs) ==
    IF defs = <<>> THEN ixs
    ELSE LET def == Head(defs)
             ix == NewIndex(def.fieldName, def.unique, def.sparse)
         IN RecreateIndexes(
                IF HasIndex(ixs, def.fieldName)
                THEN [ixs EXCEPT ![IndexPos(ixs, def.fieldName)] = ix]
                ELSE Append(ixs, ix),
                Tail(defs))

\* a loadDatabase whose catch leaves the indexes as the throw left them
rollbackNothing(ixs) == ixs

\* the catch of loadDatabase around resetIndexes(treatedData.data):
\* this.db.resetIndexes()
rollbackIndexes(ixs) == resetIndexes(ixs, <<>>).ixs

\* the part of loadDatabase that runs once the file is read: [ok, ixs, err]
loadFromRawData(ixs, rawData) ==
    LET treated == treatRawData(rawData)
        recreated == RecreateIndexes(ixs, treated.indexes)
        r == resetIndexes(recreated, treated.data)
    IN IF tooCorrupt(rawData) THEN [ok |-> FALSE, ixs |-> ixs, err |-> "corrupt"]
       ELSE IF r.ok THEN [ok |-> TRUE, ixs |-> r.ixs, err |-> "none"]
       ELSE [ok |-> FALSE, ixs |-> rollbackIndexes(r.ixs),
             err |-> "uniqueViolated"]

\* the data files a persistent datastore is constructed over: none yet (the
\* empty sequence, with datafileExists false: a new database, or one whose
\* sibling an earlier process left behind); the
\* log of two documents, one removed and stored again, and of an index created
\* and removed; the same documents with a plain index on b and a unique index
\* on a; with a sparse unique index on a; two documents that violate the
\* unique index the file defines; a file with a corrupt line
StoredX == [_id |-> "x", a |-> Num(1)]

StoredY == [_id |-> "y", a |-> Undefined]

LoggedDocs ==
    <<DocRec([_id |-> "x", a |-> Arr(<<2, 1>>)]), DeletedRec("x"), DocRec(StoredX),
      DocRec(StoredY)>>

InitialFiles ==
    {<<>>,
     LoggedDocs \o <<IndexCreatedRec("a", TRUE, FALSE, NoExpire), IndexRemovedRec("a")>>,
     LoggedDocs \o <<IndexCreatedRec("b", FALSE, FALSE, NoExpire),
                     IndexCreatedRec("a", TRUE, FALSE, NoExpire)>>,
     LoggedDocs \o <<IndexCreatedRec("a", TRUE, TRUE, NoExpire)>>,
     <<DocRec(StoredX), DocRec([_id |-> "y", a |-> Num(1)]),
       IndexCreatedRec("a", TRUE, FALSE, NoExpire)>>,
     <<DocRec(StoredX), CorruptRec, DocRec(StoredY)>>}

\* what a sibling <filename>~ holds that an earlier process left behind when
\* it stopped before the rename of crashSafeWriteFile: nothing yet, documents
\* with two indexes, a file with a corrupt line
SiblingContents ==
    {<<>>,
     LoggedDocs \o <<IndexCreatedRec("b", FALSE, FALSE, NoExpire),
                     IndexCreatedRec("a", TRUE, FALSE, NoExpire)>>,
     <<DocRec(StoredX), CorruptRec, DocRec(StoredY)>>}

\* ---------------------------------------------------------------------------
\* The synchronous blocks of Datastore._update and Datastore._remove
\* ---------------------------------------------------------------------------

\* the test of the loops of _update and _remove beside matchQuery: with
\* multi not set only the first matching document is changed
changesNext(multi, total) == multi \/ total = 0

\* the loop of _update that prepares the modifications: [err, pairs,
\* totalReplaced]
RECURSIVE prepareModifications(_, _, _, _, _)
prepareModifications(candidates, query, updateQuery, multi, pairs) ==
    IF candidates = <<>>
    THEN [err |-> "none", pairs |-> pairs, totalReplaced |-> Len(pairs)]
    ELSE LET oldDoc == Head(candidates)
             m == matchQuery(oldDoc, query)
         IN IF m = "throws"
            THEN [err |-> "query", pairs |-> pairs, totalReplaced |-> Len(pairs)]
            ELSE IF m = "true" /\ changesNext(multi, Len(pairs))
                 THEN LET r == modifyDoc(oldDoc, updateQuery)
                      IN IF r.ok
                         THEN prepareModifications(Tail(candidates), query, updateQuery, multi,
                                  Append(pairs, [oldDoc |-> oldDoc, newDoc |-> r.doc]))
                         ELSE [err |-> r.err, pairs |-> pairs,
                               totalReplaced |-> Len(pairs) + 1]
                 ELSE prepareModifications(Tail(candidates), query, updateQuery, multi, pairs)

\* the loop of _remove: [err, ixs, removedDocs]
RECURSIVE removeMatching(_, _, _, _, _)
removeMatching(ixs, candidates, query, multi, removedDocs) ==
    IF candidates = <<>> THEN [err |-> "none", ixs |-> ixs, removedDocs |-> removedDocs]
    ELSE LET d == Head(candidates)
             m == matchQuery(d, query)
         IN IF m = "throws"
            THEN [err |-> "query", ixs |-> ixs, removedDocs |-> removedDocs]
            ELSE IF m = "true" /\ changesNext(multi, Len(removedDocs))
                 THEN removeMatching(removeFromIndexes(ixs, d), Tail(candidates), query, multi,
                                     Append(removedDocs, DeletedRec(d._id)))
                 ELSE removeMatching(ixs, Tail(candidates), query, multi, removedDocs)

\* step 1 of getCandidates; indexNames are the index names read when
\* getCandidates was called
UsesIndex(query, indexNames) == query.qt = "field" /\ query.f \in indexNames

\* the query is answered from this.indexes._id: it has the one key _id, or no
\* index named when getCandidates was called serves it
ReadsPrimary(query, indexNames) ==
    \/ query.qt \in {"id", "idin", "all", "where"}
    \/ query.qt \in {"field", "fieldin", "bounds"} /\ query.f \notin indexNames

\* step 1 reads an index that is not there (any more) and throws a TypeError
\* out of its setImmediate callback
step1Throws(ixs, query, indexNames) ==
    IF ReadsPrimary(query, indexNames) THEN ~HasIndex(ixs, "_id")
    ELSE ~HasIndex(ixs, query.f)

getCandidatesStep1(ixs, query, indexNames) ==
    IF query.qt \in {"id", "idin"}
    THEN IxGetMatching(ixs[IndexPos(ixs, "_id")], QueryIdValue(query))
    ELSE IF UsesIndex(query, indexNames)
    THEN Index_getMatching(ixs[IndexPos(ixs, query.f)], query.k)
    ELSE IF query.qt = "fieldin" /\ query.f \in indexNames
    THEN Index_getMatchingEach(ixs[IndexPos(ixs, query.f)], query.ks, <<>>)
    ELSE IF query.qt = "bounds" /\ query.f \in indexNames
    THEN Index_getBetweenBounds(ixs[IndexPos(ixs, query.f)], query.gte, query.lte)
    ELSE getAllData(ixs)

IndexNames(ixs) == {ixs[i].fieldName : i \in 1..Len(ixs)}

\* ---------------------------------------------------------------------------
\* Storage: the data file and its sibling, crashSafeWriteFile and
\* ensureDatafileIntegrity.  The content of a file is the sequence of its
\* lines.
\* ---------------------------------------------------------------------------

\* a file that does not exist, a file with the given content
Missing == [exists |-> FALSE, content |-> <<>>]

File(content) == [exists |-> TRUE, content |-> content]

\* the data passed to crashSafeWriteFile: up to MaxLines lines
Payloads == UNION {[1..n -> {"new"}] : n \in 0..MaxLines}

\* the contents a data file has when the process starts
OldContents == {<<>>, <<"old">>, <<"old", "old">>}

\* the directory when the process starts: a new database, a data file alone,
\* a data file with a stale sibling left by an earlier crash
InitialDirs ==
    {[target |-> Missing, sibling |-> Missing]}
    \cup {[target |-> File(c), sibling |-> Missing] : c \in OldContents}
    \cup {[target |-> File(c), sibling |-> File(<<"stale">>)] : c \in OldContents}

\* an ensureDatafileIntegrity that looks for the sibling whatever it found
afterAccessTargetAlways(exists) == "accessSibling"

\* ensureDatafileIntegrity, callback of fileExists(filePath): with the data
\* file there callback(null) runs at once, otherwise the sibling is looked for
afterAccessTarget(exists) == IF exists THEN "returned" ELSE "accessSibling"

\* ensureDatafileIntegrity, callback of fileExists(tempFilename): without a
\* sibling writeFile(filePath, '') is called, otherwise rename
afterAccessSibling(tempFileExists) == IF tempFileExists THEN "rename" ELSE "writeFile"

\* no ensureDatafileIntegrity has been called
IntegrityIdle == [pc |-> "idle", err |-> "none", found |-> "none"]

\* no ensureFileDoesntExist has been called
RemoverIdle == [pc |-> "idle", err |-> "none"]

\* no crashSafeWriteFile has been called; flushing: the second function of
\* the waterfall has found the data file and flushes it
WriterIdle ==
    [pc |-> "idle", data |-> <<>>, flushing |-> FALSE, open |-> FALSE, fd |-> "none",
     written |-> 0, prev |-> Missing, err |-> "none", crashed |-> FALSE, calls |-> 0,
     callbacks |-> 0]

\* ---------------------------------------------------------------------------
\* State
\* ---------------------------------------------------------------------------

VARIABLES
    inMemoryOnly,      \* Datastore.inMemoryOnly
    isReady,           \* Executor: _isReady
    buffer,            \* Executor: buffer
    tasks,             \* Executor: tasks
    currentTask,       \* Executor: currentTask
    lastFinishedTask,  \* Executor: lastFinishedTask
    immediates,        \* number of pending setImmediate(_processNext)
    indexes,           \* Datastore.indexes, in Object.values order
    ttlIndexes,        \* Datastore.ttlIndexes, as a set of <<fieldName, seconds>>
    datafile,          \* the records of the data file
    datafileExists,    \* whether the data file exists
    siblingFile,       \* the sibling <filename>~ of the data file
    proc,              \* where the function of the current task stands
    io,                \* appends of ensureIndex / removeIndex in flight
    nextId,            \* id of the next task pushed
    nDirect,           \* number of ensureIndex / removeIndex calls made
    meta,              \* history: for each pushed task, forceQueuing and _isReady at the push
    started,           \* history: ids of the started tasks, in order
    finished,          \* history: ids of the tasks that invoked their callback
    hist,              \* history: the operation whose callback ran in the last step
    files,             \* storage: the data file and its sibling <filename>~
    writer,            \* storage: where crashSafeWriteFile stands
    integrity,         \* storage: where ensureDatafileIntegrity stands
    remover            \* storage: where ensureFileDoesntExist stands

\* the variables of the datastore
dbVars == <<inMemoryOnly, isReady, buffer, tasks, currentTask, lastFinishedTask,
            immediates, indexes, ttlIndexes, datafile, datafileExists, siblingFile, proc,
            io, nextId, nDirect, meta, started, finished, hist>>

\* the variables of the storage functions
storageVars == <<files, writer, integrity, remover>>

vars == <<dbVars, storageVars>>

NoTask == [id |-> 0, fn |-> "none"]

ProcIdle ==
    [pc |-> "idle", query |-> QAll, indexNames |-> {}, candidates |-> <<>>,
     toPersist |-> <<>>, before |-> <<>>, olds |-> <<>>, news |-> <<>>,
     updateQuery |-> UBadKey, numAffected |-> 0, upsert |-> FALSE, multi |-> FALSE,
     removing |-> <<>>, rawData |-> <<>>]

\* hist: fn and err of the operation that just reported to its callback, the
\* indexes when its synchronous block began (before), the documents it meant
\* to replace or remove (olds) and to store (news), the documents a find
\* passed to its callback (found), the count an update or a remove passed to
\* its callback (numAffected), the upsert flag an update passed, and the
\* multi option of a successful update or remove.  Where the callback of the
\* caller may throw: the number of times it was invoked in the step (calls),
\* whether it threw, and whether the exception left the library uncaught.
\* emits is the number of 'compaction.done' events emitted in the step.
\* The indexes and the file at the callback are those of the state itself.
\* For an ensureIndex, options are the options of the call.
NoOptions == [fieldName |-> "", unique |-> FALSE, sparse |-> FALSE, expire |-> NoExpire]

NoHist ==
    [id |-> 0, fn |-> "none", err |-> "none", before |-> <<>>, olds |-> <<>>,
     news |-> <<>>, options |-> NoOptions, found |-> <<>>, numAffected |-> 0,
     upsert |-> FALSE, multi |-> FALSE, calls |-> 0, threw |-> FALSE,
     uncaught |-> FALSE, emits |-> 0]

MkHist(t, err, before, olds, news) ==
    [id |-> t.id, fn |-> t.fn, err |-> err, before |-> before, olds |-> olds,
     news |-> news, options |-> NoOptions, found |-> <<>>, numAffected |-> 0,
     upsert |-> FALSE, multi |-> FALSE, calls |-> 0, threw |-> FALSE,
     uncaught |-> FALSE, emits |-> 0]

Init ==
    /\ inMemoryOnly \in BOOLEAN
    /\ isReady = inMemoryOnly
    /\ buffer = <<>>
    /\ tasks = <<>>
    /\ currentTask = NoTask
    /\ lastFinishedTask = NoTask
    /\ immediates = 0
    /\ indexes = <<NewUniqueStringIndex>>
    /\ ttlIndexes = {}
    /\ datafile \in (IF inMemoryOnly THEN {<<>>} ELSE InitialFiles)
    /\ datafileExists = (datafile # <<>>)
    /\ siblingFile \in (IF inMemoryOnly \/ datafileExists THEN {Missing}
                        ELSE {Missing} \cup {File(c) : c \in SiblingContents})
    /\ proc = ProcIdle
    /\ io = <<>>
    /\ nextId = 1
    /\ nDirect = 0
    /\ meta = <<>>
    /\ started = <<>>
    /\ finished = {}
    /\ hist = NoHist
    /\ files = [target |-> Missing, sibling |-> Missing]
    /\ writer = WriterIdle
    /\ integrity = IntegrityIdle
    /\ remover = RemoverIdle

\* ---------------------------------------------------------------------------
\* Executor
\* ---------------------------------------------------------------------------

\* push with the task put in front of the queue
pushInFront(fn, forceQueuing) ==
    /\ LET task == [id |-> nextId, fn |-> fn]
       IN IF isReady \/ forceQueuing
          THEN tasks' = <<task>> \o tasks /\ UNCHANGED buffer
          ELSE buffer' = Append(buffer, task) /\ UNCHANGED tasks
    /\ immediates' = immediates + 1
    /\ meta' = Append(meta, [force |-> forceQueuing, ready |-> isReady])
    /\ nextId' = nextId + 1
    /\ hist' = NoHist
    /\ UNCHANGED <<storageVars, inMemoryOnly, datafileExists, siblingFile, isReady, currentTask,
                   lastFinishedTask, indexes, ttlIndexes, datafile, proc, io, nDirect, started,
                   finished>>

\* a push that calls the function of the task itself when the executor is
\* free, instead of leaving it to a later _processNext
pushAndStart(fn, forceQueuing) ==
    LET task == [id |-> nextId, fn |-> fn]
    IN /\ IF (isReady \/ forceQueuing) /\ currentTask = NoTask /\ tasks = <<>>
          THEN /\ currentTask' = task
               /\ started' = Append(started, task.id)
               /\ UNCHANGED <<tasks, buffer, immediates>>
          ELSE /\ IF isReady \/ forceQueuing
                  THEN tasks' = Append(tasks, task) /\ UNCHANGED buffer
                  ELSE buffer' = Append(buffer, task) /\ UNCHANGED tasks
               /\ immediates' = immediates + 1
               /\ UNCHANGED <<currentTask, started>>
       /\ meta' = Append(meta, [force |-> forceQueuing, ready |-> isReady])
       /\ nextId' = nextId + 1
       /\ hist' = NoHist
       /\ UNCHANGED <<storageVars, inMemoryOnly, datafileExists, siblingFile, isReady,
                      lastFinishedTask, indexes, ttlIndexes, datafile, proc, io, nDirect,
                      finished>>

\* Executor.push: the task goes to tasks or to buffer, setImmediate(_processNext)
push(fn, forceQueuing) ==
    /\ LET task == [id |-> nextId, fn |-> fn]
       IN IF isReady \/ forceQueuing
          THEN tasks' = Append(tasks, task) /\ UNCHANGED buffer
          ELSE buffer' = Append(buffer, task) /\ UNCHANGED tasks
    /\ immediates' = immediates + 1
    /\ meta' = Append(meta, [force |-> forceQueuing, ready |-> isReady])
    /\ nextId' = nextId + 1
    /\ hist' = NoHist
    /\ UNCHANGED <<storageVars, inMemoryOnly, datafileExists, siblingFile, isReady, currentTask,
                   lastFinishedTask, indexes, ttlIndexes, datafile, proc, io, nDirect, started,
                   finished>>

\* processBuffer with the buffered tasks put in front of the queued ones
processBufferInFront ==
    /\ isReady' = TRUE
    /\ IF buffer # <<>>
       THEN tasks' = buffer \o tasks /\ buffer' = <<>>
       ELSE UNCHANGED <<tasks, buffer>>

\* Executor.processBuffer: the buffered tasks go behind the queued ones
processBuffer ==
    /\ isReady' = TRUE
    /\ IF buffer # <<>>
       THEN tasks' = tasks \o buffer /\ buffer' = <<>>
       ELSE UNCHANGED <<tasks, buffer>>

\* the setImmediate(_processNext) of processBuffer, made for a non-empty buffer
BufferImmediates == IF buffer # <<>> THEN 1 ELSE 0

\* _processNext without its test of currentTask
CanStartWhileRunning == immediates > 0 /\ tasks # <<>>

\* the guard of _processNext
CanStart == immediates > 0 /\ currentTask = NoTask /\ tasks # <<>>

\* _processNext finds a task running or the queue empty
ProcessNextIdle ==
    /\ immediates > 0
    /\ ~CanStart
    /\ immediates' = immediates - 1
    /\ hist' = NoHist
    /\ UNCHANGED <<storageVars, inMemoryOnly, datafileExists, siblingFile, isReady, buffer,
                   tasks, currentTask, lastFinishedTask, indexes, ttlIndexes, datafile,
                   proc, io, nextId, nDirect, meta, started, finished>>

\* _processNext takes the first task of the queue
Begin(t) ==
    /\ tasks' = Tail(tasks)
    /\ started' = Append(started, t.id)

\* _onTaskFinished; imm is the number of pending immediates when it runs
onTaskFinished(t, imm) ==
    /\ t # lastFinishedTask
    /\ lastFinishedTask' = t
    /\ currentTask' = NoTask
    /\ immediates' = imm + 1

\* A frame is a function that stands between the callback of the caller and
\* the event loop when a task reports; site tells where in that function the
\* call stands that leads to the callback: "inTry" inside a try block whose
\* catch block calls the callback with the error, "inCatch" inside such a
\* catch block, "afterTry" behind the try statements of the function, "plain"
\* in a function that has no try.
Frame(f, site) == [f |-> f, site |-> site]

\* Cursor._exec: return callback(err) stands in the catch blocks, the call
\* callback(error, res) behind the last try statement
cursorExecSiteInTry(err) == IF err # "none" THEN "inCatch" ELSE "inTry"

cursorExecSite(err) == IF err # "none" THEN "inCatch" ELSE "afterTry"

\* getCandidates calls its callback from (err, docs) => callback(err || null,
\* docs), which step 2 calls, which legacyWaterfall calls from a setImmediate
CandidatesFrames ==
    <<Frame("getCandidates", "plain"), Frame("legacyWaterfall", "plain")>>

\* the frames of operation fn reporting err, the innermost first: the
\* wrapper _processNext put in place of the callback, then
\*   insert: cb(err) in the catch block of _insert, or persistNewState called
\*           behind the try statement of _insert; _insert is called by
\*           _processNext
\*   update, remove: callback(err) in a catch block of the callback given to
\*           getCandidates, or persistNewState called behind its try statements
\*   find:   the exec function of the cursor, called by Cursor._exec
CallSites(fn, err) ==
    <<Frame("wrapper", "plain")>>
    \o (CASE fn = "insert" ->
               (IF err # "none" THEN <<Frame("_insert", "inCatch")>>
                ELSE <<Frame("persistNewState", "plain"), Frame("_insert", "afterTry")>>)
               \o <<Frame("_processNext", "plain")>>
          [] fn \in {"update", "remove"} ->
               (IF err # "none" THEN <<Frame(fn, "inCatch")>>
                ELSE <<Frame("persistNewState", "plain"), Frame(fn, "afterTry")>>)
               \o CandidatesFrames
          [] OTHER ->
               <<Frame("execFn", "plain"), Frame("Cursor._exec", cursorExecSite(err))>>
               \o CandidatesFrames)

\* an exception thrown by the callback travels outwards through the frames:
\* a frame whose call stands in a try block catches it and calls the callback
\* again with the error; when the callback throws again the exception leaves
\* the catch block and travels on.  [calls, uncaught]: the number of calls of
\* the callback, and whether an exception reaches the event loop.
RECURSIVE unwind(_, _, _)
unwind(frames, calls, again) ==
    IF frames = <<>> THEN [calls |-> calls, uncaught |-> TRUE]
    ELSE IF Head(frames).site = "inTry"
         THEN IF again THEN unwind(Tail(frames), calls + 1, again)
              ELSE [calls |-> calls + 1, uncaught |-> FALSE]
         ELSE unwind(Tail(frames), calls, again)

\* what the callback of the caller does: it returns, or it throws on its
\* first call and, when called again, throws or returns
Callbacks ==
    {[given |-> TRUE, throws |-> FALSE, again |-> FALSE],
     [given |-> TRUE, throws |-> TRUE, again |-> FALSE],
     [given |-> TRUE, throws |-> TRUE, again |-> TRUE]}

\* the task was pushed without a callback
NoCallback == [given |-> FALSE, throws |-> FALSE, again |-> FALSE]

\* the wrapper with its two calls exchanged: the callback of the caller
\* first, _onTaskFinished after it
callbackThenFinish(t, imm, h, cb) ==
    LET r == unwind(CallSites(h.fn, h.err), 1, cb.again)
    IN /\ IF cb.throws
          THEN immediates' = imm /\ UNCHANGED <<currentTask, lastFinishedTask>>
          ELSE onTaskFinished(t, imm)
       /\ finished' = finished \cup {t.id}
       /\ hist' = [h EXCEPT !.calls = IF cb.throws THEN r.calls ELSE 1,
                            !.threw = cb.throws,
                            !.uncaught = cb.throws /\ r.uncaught]
       /\ proc' = ProcIdle

\* the function _processNext puts in place of the last argument of a task:
\* _onTaskFinished(), then lastArg.apply(null, arguments), with no try
\* around it.  An exception of the callback travels through the frames the
\* wrapper was called from.
wrappedCallback(t, imm, h, cb) ==
    LET r == unwind(CallSites(h.fn, h.err), 1, cb.again)
    IN /\ onTaskFinished(t, imm)
       /\ finished' = finished \cup {t.id}
       /\ hist' = [h EXCEPT !.calls = IF cb.throws THEN r.calls ELSE 1,
                            !.threw = cb.throws,
                            !.uncaught = cb.throws /\ r.uncaught]
       /\ proc' = ProcIdle

\* the last argument _processNext hands to the function of task t: the
\* wrapper when the caller supplied a callback, _onTaskFinished itself when
\* it supplied none
taskCallback(t, imm, h, cb) ==
    IF cb.given THEN wrappedCallback(t, imm, h, cb)
    ELSE /\ onTaskFinished(t, imm)
         /\ finished' = finished \cup {t.id}
         /\ hist' = h
         /\ proc' = ProcIdle

\* the function of task t invokes its callback before it returns
CompleteSync(t, h) == taskCallback(t, immediates - 1, h, NoCallback)

\* the function of task t returns with a storage call or a deferred step pending
Suspend(t, p) ==
    /\ currentTask' = t
    /\ immediates' = immediates - 1
    /\ proc' = p
    /\ hist' = NoHist
    /\ UNCHANGED <<lastFinishedTask, finished>>

\* the current task goes on waiting, for the next storage call
Continue(p) ==
    /\ proc' = p
    /\ hist' = NoHist
    /\ UNCHANGED <<currentTask, lastFinishedTask, immediates, finished>>

\* the current task invokes its callback from a later event
CompleteAsync(h) == taskCallback(currentTask, immediates, h, NoCallback)

\* ---------------------------------------------------------------------------
\* The public operations that push a task
\* ---------------------------------------------------------------------------

\* loadDatabase is the one operation pushed with forceQueuing
NumLoads == Cardinality({i \in 1..Len(meta) : meta[i].force})

NumOps == Len(meta) - NumLoads

NumQueued == Len(tasks) + Len(buffer)

\* a further data operation may be called
MayCall ==
    /\ NumOps < (IF inMemoryOnly THEN MaxOps ELSE MaxFileOps)
    /\ NumQueued < MaxQueued

Insert == MayCall /\ push("insert", FALSE)

Update == MayCall /\ push("update", FALSE)

Remove == MayCall /\ push("remove", FALSE)

CompactDatafile == MayCall /\ push("compact", FALSE)

LoadDatabase == NumLoads < MaxLoads /\ push("load", TRUE)

\* the calls of SpecExec: any number of tasks may wait
Find == NumOps < MaxPush /\ push("find", FALSE)

CompactDatafileExec == NumOps < MaxPush /\ push("compact", FALSE)

LoadDatabaseExec == NumLoads < MaxExecLoads /\ push("load", TRUE)


\* ---------------------------------------------------------------------------
\* Datastore._insert
\* ---------------------------------------------------------------------------

\* the prepared documents of an insert: one document or a batch of two; a
\* document passed without _id has got an unused _id from createNewId
InsertBatches == {<<d>> : d \in Docs} \cup {<<d1, d2>> : d1 \in Docs, d2 \in Docs}

\* _processNext starts an insert of a caller whose callback is cb; _insert
\* reports to it before it returns
startInsert(cb) ==
    /\ CanStart
    /\ Head(tasks).fn = "insert"
    /\ LET t == Head(tasks)
       IN /\ Begin(t)
          /\ \/ \* checkObject throws on a field name of a document
                /\ taskCallback(t, immediates - 1, MkHist(t, "invalidKey", indexes, <<>>, <<>>), cb)
                /\ UNCHANGED indexes
             \/ \* createNewId throws a TypeError for a document passed without
                \* _id when this.indexes._id is not there
                /\ ~HasIndex(indexes, "_id")
                /\ taskCallback(t, immediates - 1, MkHist(t, "typeError", indexes, <<>>, <<>>), cb)
                /\ UNCHANGED indexes
             \/ \E preparedDocs \in InsertBatches :
                    LET r == IF Len(preparedDocs) = 1
                             THEN addToIndexes(indexes, preparedDocs[1])
                             ELSE addMultipleDocsToIndexes(indexes, preparedDocs)
                    IN /\ indexes' = r.ixs
                       /\ IF ~r.ok
                          THEN taskCallback(t, immediates - 1,
                                            MkHist(t, "uniqueViolated", indexes,
                                                   <<>>, preparedDocs), cb)
                          ELSE IF inMemoryOnly
                               THEN taskCallback(t, immediates - 1,
                                                 MkHist(t, "none", indexes,
                                                        <<>>, preparedDocs), cb)
                               ELSE Suspend(t, [ProcIdle EXCEPT !.pc = "append",
                                                   !.toPersist = DocRecs(preparedDocs),
                                                   !.news = preparedDocs,
                                                   !.before = indexes])
    /\ UNCHANGED <<storageVars, inMemoryOnly, datafileExists, siblingFile, isReady, buffer,
                   ttlIndexes, datafile, io, nextId, nDirect, meta>>

StartInsert == startInsert(NoCallback)

\* ---------------------------------------------------------------------------
\* getCandidates, used by _update, _remove and Cursor._exec: legacyWaterfall
\* runs each of its two steps from a setImmediate of its own
\* ---------------------------------------------------------------------------

\* _processNext starts an update, a remove or a find: getCandidates reads the
\* index names and defers step 1
StartQuery ==
    /\ CanStart
    /\ Head(tasks).fn \in {"update", "remove", "find"}
    /\ LET t == Head(tasks)
       IN /\ Begin(t)
          /\ Suspend(t, [ProcIdle EXCEPT !.pc = "step1",
                            !.indexNames = IndexNames(indexes)])
    /\ UNCHANGED <<storageVars, inMemoryOnly, datafileExists, siblingFile, isReady, buffer,
                   indexes, ttlIndexes, datafile, io, nextId, nDirect, meta>>

\* step 1 of getCandidates.  The query of the call is drawn here, where it is
\* first read.  When the index the query was matched with has been removed in
\* the meantime, or the query is answered from an _id index that has been
\* removed, the step throws a TypeError out of its setImmediate callback and
\* the task never completes.
CandidatesStep1 ==
    /\ proc.pc = "step1"
    /\ \E query \in Queries :
         IF step1Throws(indexes, query, proc.indexNames)
         THEN proc' = [proc EXCEPT !.pc = "dead", !.query = query]
         ELSE proc' = [proc EXCEPT !.pc = "step2", !.query = query,
                          !.candidates = getCandidatesStep1(indexes, query, proc.indexNames)]
    /\ hist' = NoHist
    /\ UNCHANGED <<storageVars, inMemoryOnly, datafileExists, siblingFile, isReady, buffer,
                   tasks, currentTask, lastFinishedTask, immediates, indexes, ttlIndexes,
                   datafile, io, nextId, nDirect, meta, started, finished>>

\* the time of Date.now(), in seconds
Now == 13

\* doc[fieldName]: the property of that name, read without dot notation
ownValue(doc, fieldName) ==
    IF fieldName = "a" THEN doc.a ELSE Undefined

\* the test of step 2 of getCandidates on one document; ttl is ttlIndexes
\* (times are in seconds, where the code counts milliseconds)
isStale(doc, ttl, now) ==
    \E e \in ttl :
        LET val == ownValue(doc, e[1])
        IN isDate(val) /\ now > val.v[1] + e[2]

\* the documents step 2 of getCandidates removes
expiredDocs(docs, ttl, now) == SelectSeq(docs, LAMBDA d : isStale(d, ttl, now))

\* the documents step 2 of getCandidates passes to its callback
validDocs(docs, ttl, now) ==
    LET expired == SeqToSet(expiredDocs(docs, ttl, now))
    IN SelectSeq(docs, LAMBDA d : d \notin expired)

\* getCandidates reaches its callback: from step 2 when no candidate has
\* expired (_remove passes dontExpireStaleDocs), else after the removals
CandidatesReady ==
    \/ proc.pc = "valid"
    \/ /\ proc.pc = "step2"
       /\ \/ currentTask.fn = "remove"
          \/ expiredDocs(proc.candidates, ttlIndexes, Now) = <<>>

\* the callback of Cursor._exec, without sort, skip, limit or projection:
\* [err, res]
Cursor_exec(candidates, query) ==
    IF \E i \in 1..Len(candidates) : matchQuery(candidates[i], query) = "throws"
    THEN [err |-> "query", res |-> <<>>]
    ELSE [err |-> "none",
          res |-> SelectSeq(candidates, LAMBDA d : matchQuery(d, query) = "true")]

\* step 2 of getCandidates and the callback of Cursor._exec
FinishFind ==
    /\ CandidatesReady
    /\ currentTask.fn = "find"
    /\ LET r == Cursor_exec(proc.candidates, proc.query)
       IN CompleteAsync([MkHist(currentTask, r.err, indexes, <<>>, <<>>)
                            EXCEPT !.found = r.res])
    /\ UNCHANGED <<storageVars, inMemoryOnly, datafileExists, siblingFile, isReady, buffer,
                   tasks, indexes, ttlIndexes, datafile, io, nextId, nDirect, meta,
                   started>>

\* the callback _update gives to getCandidates: the modifications are
\* prepared, the indexes updated, and persistNewState is called; cb is the
\* callback of the caller
finishUpdateWith(updateQuery, multi, cb) ==
    LET m == prepareModifications(proc.candidates, proc.query, updateQuery, multi, <<>>)
        r == updateIndexes(indexes, m.pairs)
        olds == OldDocs(m.pairs)
        news == NewDocs(m.pairs)
        report(h) == taskCallback(currentTask, immediates, h, cb)
    IN IF m.err # "none"
       THEN /\ report(MkHist(currentTask, m.err, indexes, olds, news))
            /\ UNCHANGED indexes
       ELSE /\ indexes' = r.ixs
            /\ IF ~r.ok
               THEN report(MkHist(currentTask, "uniqueViolated", indexes, olds, news))
               ELSE IF inMemoryOnly \/ news = <<>>
                    THEN report([MkHist(currentTask, "none", indexes, olds, news)
                                    EXCEPT !.numAffected = m.totalReplaced,
                                           !.multi = multi])
                    ELSE Continue([proc EXCEPT !.pc = "append",
                                      !.toPersist = DocRecs(news), !.before = indexes,
                                      !.olds = olds, !.news = news,
                                      !.numAffected = m.totalReplaced,
                                      !.multi = multi])

finishUpdate(updateQuery, multi) ==
    finishUpdateWith(updateQuery, multi, NoCallback)

\* step 2 of getCandidates and the callback of _update.  The update query and
\* the multi option of the call are drawn here, where they are first read.
FinishUpdate ==
    /\ CandidatesReady
    /\ currentTask.fn = "update"
    /\ \E updateQuery \in UpdateQueries, multi \in BOOLEAN : finishUpdate(updateQuery, multi)
    /\ UNCHANGED <<storageVars, inMemoryOnly, datafileExists, siblingFile, isReady, buffer,
                   tasks, ttlIndexes, datafile, io, nextId, nDirect, meta, started>>

\* step 2 of getCandidates and the callback of _remove; cb is the callback
\* of the caller
finishRemove(cb) ==
    /\ proc.pc = "step2"
    /\ currentTask.fn = "remove"
    /\ \E multi \in BOOLEAN :
         LET r == removeMatching(indexes, proc.candidates, proc.query, multi, <<>>)
             olds == [i \in 1..Len(r.removedDocs) |->
                         CHOOSE d \in SeqToSet(proc.candidates) : d._id = r.removedDocs[i].doc._id]
             report(h) == taskCallback(currentTask, immediates, h, cb)
         IN /\ indexes' = r.ixs
            /\ IF r.err # "none"
               THEN report(MkHist(currentTask, r.err, indexes, olds, <<>>))
               ELSE IF inMemoryOnly \/ r.removedDocs = <<>>
                    THEN report([MkHist(currentTask, "none", indexes, olds, <<>>)
                                    EXCEPT !.numAffected = Len(r.removedDocs),
                                           !.multi = multi])
                    ELSE Continue([proc EXCEPT !.pc = "append",
                                      !.toPersist = r.removedDocs, !.before = indexes,
                                      !.olds = olds, !.numAffected = Len(r.removedDocs),
                                      !.multi = multi])
    /\ UNCHANGED <<storageVars, inMemoryOnly, datafileExists, siblingFile, isReady, buffer,
                   tasks, ttlIndexes, datafile, io, nextId, nDirect, meta, started>>

FinishRemove == finishRemove(NoCallback)

\* the appendFile of persistNewState writes: the records are in the file, or
\* the append failed and the file is as it was.  Its callback has not run.
AppendLands ==
    /\ proc.pc = "append"
    /\ \E ok \in BOOLEAN :
         /\ datafile' = IF ok THEN datafile \o proc.toPersist ELSE datafile
         /\ datafileExists' = (ok \/ datafileExists)
         /\ proc' = [proc EXCEPT !.pc = IF ok THEN "appended" ELSE "appendFailed"]
    /\ hist' = NoHist
    /\ UNCHANGED <<storageVars, inMemoryOnly, siblingFile, isReady, buffer, tasks, currentTask,
                   lastFinishedTask, immediates, indexes, ttlIndexes, io, nextId, nDirect,
                   meta, started, finished>>

\* the callback of the appendFile of persistNewState
AppendDone ==
    /\ proc.pc \in {"appended", "appendFailed"}
    /\ LET ok == proc.pc = "appended"
       IN CompleteAsync([MkHist(currentTask, IF ok THEN "none" ELSE "storage",
                                proc.before, proc.olds, proc.news)
                            EXCEPT !.numAffected = IF ok THEN proc.numAffected ELSE 0,
                                   !.upsert = ok /\ proc.upsert,
                                   !.multi = ok /\ proc.multi])
    /\ UNCHANGED <<storageVars, inMemoryOnly, datafileExists, siblingFile, isReady, buffer,
                   tasks, indexes, ttlIndexes, datafile, io, nextId, nDirect, meta,
                   started>>

\* ---------------------------------------------------------------------------
\* Persistence.persistCachedDatabase (as the task of compactDatafile) and
\* Persistence.loadDatabase
\* ---------------------------------------------------------------------------

\* _processNext starts a compaction: the payload is built from the indexes as
\* they are now, then crashSafeWriteFile is called.  Without an index on _id
\* getAllData throws out of the setImmediate callback that runs _processNext
\* and _onTaskFinished is never invoked.
StartCompact ==
    /\ CanStart
    /\ Head(tasks).fn = "compact"
    /\ LET t == Head(tasks)
       IN /\ Begin(t)
          /\ IF inMemoryOnly
             THEN CompleteSync(t, MkHist(t, "none", indexes, <<>>, <<>>))
             ELSE IF ~HasIndex(indexes, "_id")
             THEN Suspend(t, [ProcIdle EXCEPT !.pc = "dead"])
             ELSE Suspend(t, [ProcIdle EXCEPT !.pc = "write",
                                 !.toPersist = persistCachedDatabasePayload(indexes),
                                 !.before = indexes])
    /\ UNCHANGED <<storageVars, inMemoryOnly, datafileExists, siblingFile, isReady, buffer,
                   indexes, ttlIndexes, datafile, io, nextId, nDirect, meta>>

\* _processNext starts a load: every index is emptied, then
\* ensureDirectoryExists is called
StartLoad ==
    /\ CanStart
    /\ Head(tasks).fn = "load"
    /\ LET t == Head(tasks)
       IN /\ Begin(t)
          /\ indexes' = resetIndexes(indexes, <<>>).ixs
          /\ IF inMemoryOnly
             THEN CompleteSync(t, MkHist(t, "none", indexes, <<>>, <<>>))
             ELSE Suspend(t, [ProcIdle EXCEPT !.pc = "mkdir"])
    /\ UNCHANGED <<storageVars, inMemoryOnly, datafileExists, siblingFile, isReady, buffer,
                   ttlIndexes, datafile, io, nextId, nDirect, meta>>

\* the callback of mkdir in loadDatabase: the load ends with the error, or
\* ensureDatafileIntegrity is called and asks whether the data file exists
MkdirDone ==
    /\ proc.pc = "mkdir"
    /\ \E ok \in BOOLEAN :
         IF ok THEN Continue([proc EXCEPT !.pc = "accessTarget"])
         ELSE CompleteAsync(MkHist(currentTask, "storage", indexes, <<>>, <<>>))
    /\ UNCHANGED <<storageVars, inMemoryOnly, datafileExists, siblingFile, isReady, buffer,
                   tasks, indexes, ttlIndexes, datafile, io, nextId, nDirect, meta,
                   started>>

\* ensureDatafileIntegrity, the callback of fileExists(filePath): with the
\* data file there readFile is called, otherwise the sibling is looked for
AccessTargetDone ==
    /\ proc.pc = "accessTarget"
    /\ Continue([proc EXCEPT !.pc = IF datafileExists THEN "read" ELSE "accessSibling"])
    /\ UNCHANGED <<storageVars, inMemoryOnly, datafileExists, siblingFile, isReady, buffer,
                   tasks, indexes, ttlIndexes, datafile, io, nextId, nDirect, meta,
                   started>>

\* ensureDatafileIntegrity, the callback of fileExists(tempFilename): without
\* a sibling writeFile(filePath, '') is called, otherwise
\* rename(tempFilename, filePath)
AccessSiblingDone ==
    /\ proc.pc = "accessSibling"
    /\ Continue([proc EXCEPT !.pc = IF siblingFile.exists THEN "rename" ELSE "create"])
    /\ UNCHANGED <<storageVars, inMemoryOnly, datafileExists, siblingFile, isReady, buffer,
                   tasks, indexes, ttlIndexes, datafile, io, nextId, nDirect, meta,
                   started>>

\* the writeFile(filePath, '') of ensureDatafileIntegrity writes: the data
\* file is created, or emptied when an append has created it since the
\* check; or the write fails and the file is as it was
CreateLands ==
    /\ proc.pc = "create"
    /\ \E ok \in BOOLEAN :
         /\ datafile' = IF ok THEN <<>> ELSE datafile
         /\ datafileExists' = (ok \/ datafileExists)
         /\ Continue([proc EXCEPT !.pc = IF ok THEN "ensured" ELSE "ensureFailed"])
    /\ UNCHANGED <<storageVars, inMemoryOnly, siblingFile, isReady, buffer, tasks, indexes,
                   ttlIndexes, io, nextId, nDirect, meta, started>>

\* the rename(tempFilename, filePath) of ensureDatafileIntegrity: the sibling
\* takes the place of the data file, also of one an append has created since
\* the check; or the rename fails and the files are as they were
RenameLands ==
    /\ proc.pc = "rename"
    /\ \E ok \in BOOLEAN :
         /\ datafile' = IF ok THEN siblingFile.content ELSE datafile
         /\ datafileExists' = (ok \/ datafileExists)
         /\ siblingFile' = IF ok THEN Missing ELSE siblingFile
         /\ Continue([proc EXCEPT !.pc = IF ok THEN "ensured" ELSE "ensureFailed"])
    /\ UNCHANGED <<storageVars, inMemoryOnly, isReady, buffer, tasks, indexes, ttlIndexes,
                   io, nextId, nDirect, meta, started>>

\* the callback of ensureDatafileIntegrity after its writeFile or its rename:
\* the load ends with the error, or readFile is called
IntegrityCallback ==
    /\ proc.pc \in {"ensured", "ensureFailed"}
    /\ IF proc.pc = "ensured" THEN Continue([proc EXCEPT !.pc = "read"])
       ELSE CompleteAsync(MkHist(currentTask, "storage", indexes, <<>>, <<>>))
    /\ UNCHANGED <<storageVars, inMemoryOnly, datafileExists, siblingFile, isReady, buffer,
                   tasks, indexes, ttlIndexes, datafile, io, nextId, nDirect, meta, started>>

\* readFile reads the data file as it is now, or fails.  Its callback has not
\* run: what is appended from here on is not in rawData.
ReadLands ==
    /\ proc.pc = "read"
    /\ \E ok \in BOOLEAN :
         Continue(IF ok /\ datafileExists
                  THEN [proc EXCEPT !.pc = "readOk", !.rawData = datafile]
                  ELSE [proc EXCEPT !.pc = "readFailed"])
    /\ UNCHANGED <<storageVars, inMemoryOnly, datafileExists, siblingFile, isReady, buffer,
                   tasks, indexes, ttlIndexes, datafile, io, nextId, nDirect, meta,
                   started>>

\* the callback of readFile in loadDatabase: the read failed, or the indexes of
\* rawData are recreated and every index is filled with the documents of
\* rawData, and persistCachedDatabase is called; without an index on _id its
\* getAllData throws out of the callback and the load never completes
ReadDone ==
    /\ proc.pc \in {"readOk", "readFailed"}
    /\ IF proc.pc = "readFailed"
       THEN /\ CompleteAsync(MkHist(currentTask, "storage", indexes, <<>>, <<>>))
            /\ UNCHANGED indexes
       ELSE LET r == loadFromRawData(indexes, proc.rawData)
            IN /\ indexes' = r.ixs
               /\ IF ~r.ok
                  THEN CompleteAsync(MkHist(currentTask, r.err, indexes, <<>>, <<>>))
                  ELSE IF ~HasIndex(r.ixs, "_id")
                  THEN Continue([proc EXCEPT !.pc = "dead", !.rawData = <<>>])
                  ELSE Continue([proc EXCEPT !.pc = "write", !.before = indexes,
                                    !.rawData = <<>>,
                                    !.toPersist = persistCachedDatabasePayload(r.ixs)])
    /\ UNCHANGED <<storageVars, inMemoryOnly, datafileExists, siblingFile, isReady, buffer,
                   tasks, ttlIndexes, datafile, io, nextId, nDirect, meta, started>>

\* crashSafeWriteFile reports: every step succeeded, a step up to the rename
\* failed (the file is as it was), or the flush after the rename failed (the
\* file is replaced though an error is reported)
WriteOutcomes == {"ok", "failedBeforeRename", "failedAfterRename"}

\* a load that calls processBuffer whatever persistCachedDatabase reports
callsProcessBufferAlways(outcome) == currentTask.fn = "load"

\* the callback loadDatabase gives persistCachedDatabase calls processBuffer
\* if (!err)
callsProcessBuffer(outcome) == currentTask.fn = "load" /\ outcome = "ok"

\* a persistCachedDatabase that emits whatever crashSafeWriteFile reports
emitsAlways(outcome) == 1

\* the callback of crashSafeWriteFile in persistCachedDatabase returns cb(err)
\* on an error and emits 'compaction.done' otherwise, before cb(null)
emitsCompactionDone(outcome) == IF outcome = "ok" THEN 1 ELSE 0

\* the writeFile(tempFilename, data) of crashSafeWriteFile: the sibling holds
\* the payload; crashSafeWriteFile has yet to flush and to rename it
WriteTempLands ==
    /\ proc.pc = "write"
    /\ siblingFile # File(proc.toPersist)
    /\ siblingFile' = File(proc.toPersist)
    /\ hist' = NoHist
    /\ UNCHANGED <<storageVars, inMemoryOnly, datafileExists, isReady, buffer, tasks,
                   currentTask, lastFinishedTask, immediates, indexes, ttlIndexes, datafile,
                   io, nextId, nDirect, meta, started, finished, proc>>

\* the rename of crashSafeWriteFile: the sibling written from the payload takes
\* the place of the data file.  crashSafeWriteFile has yet to flush the
\* directory and to call back.
WriteRename ==
    /\ proc.pc = "write"
    /\ siblingFile = File(proc.toPersist)
    /\ datafile' = proc.toPersist
    /\ datafileExists' = TRUE
    /\ siblingFile' = Missing
    /\ proc' = [proc EXCEPT !.pc = "renamed"]
    /\ hist' = NoHist
    /\ UNCHANGED <<storageVars, inMemoryOnly, isReady, buffer, tasks, currentTask,
                   lastFinishedTask, immediates, indexes, ttlIndexes, io, nextId, nDirect,
                   meta, started, finished>>

\* the outcomes crashSafeWriteFile can report before and after its rename
OutcomesAt(pc) ==
    IF pc = "write" THEN {"failedBeforeRename"} ELSE {"ok", "failedAfterRename"}

\* the callback of crashSafeWriteFile in persistCachedDatabase; a load that
\* succeeded calls processBuffer before its callback
WriteDone ==
    /\ proc.pc \in {"write", "renamed"}
    /\ \E outcome \in WriteOutcomes \cap OutcomesAt(proc.pc) :
         LET flush == callsProcessBuffer(outcome)
         IN /\ IF flush THEN processBuffer ELSE UNCHANGED <<isReady, tasks, buffer>>
            /\ onTaskFinished(currentTask,
                              immediates + (IF flush THEN BufferImmediates ELSE 0))
            /\ finished' = finished \cup {currentTask.id}
            /\ hist' = [MkHist(currentTask, IF outcome = "ok" THEN "none" ELSE "storage",
                                proc.before, <<>>, <<>>)
                            EXCEPT !.emits = emitsCompactionDone(outcome)]
            /\ proc' = ProcIdle
    /\ UNCHANGED <<storageVars, inMemoryOnly, datafileExists, siblingFile, indexes,
                   ttlIndexes, datafile, io, nextId, nDirect, meta, started>>

\* ---------------------------------------------------------------------------
\* Datastore.ensureIndex and Datastore.removeIndex: called directly, not
\* through the executor
\* ---------------------------------------------------------------------------

\* the options of the ensureIndex calls: a unique, a sparse unique and a TTL
\* index on a, a plain index on b, an index on _id
IndexOptions ==
    {[fieldName |-> "a", unique |-> TRUE, sparse |-> FALSE, expire |-> NoExpire],
     [fieldName |-> "a", unique |-> TRUE, sparse |-> TRUE, expire |-> NoExpire],
     [fieldName |-> "a", unique |-> FALSE, sparse |-> FALSE, expire |-> ExpireSecs],
     [fieldName |-> "b", unique |-> FALSE, sparse |-> FALSE, expire |-> NoExpire],
     [fieldName |-> "_id", unique |-> FALSE, sparse |-> FALSE, expire |-> NoExpire]}

\* the names removeIndex is called with
IndexFieldNames == Fields \cup {"_id"}

DirectOp(fn) == [id |-> 0, fn |-> fn]

\* a further ensureIndex or removeIndex may be called
MayCallDirect == nDirect < MaxDirect

\* this.ttlIndexes[fieldName] = expireAfterSeconds
TtlSet(ttl, fieldName, secs) ==
    {e \in ttl : e[1] # fieldName} \cup {<<fieldName, secs>>}

\* persistNewState called outside a task: in memory the callback runs at once,
\* else appendFile is called
persistNewStateDirect(fn, recs, options) ==
    IF inMemoryOnly
    THEN /\ hist' = [MkHist(DirectOp(fn), "none", indexes, <<>>, <<>>)
                        EXCEPT !.options = options]
         /\ UNCHANGED io
    ELSE /\ io' = Append(io, [fn |-> fn, recs |-> recs, st |-> "inflight"])
         /\ hist' = NoHist

\* an ensureIndex that takes no field for indexed
neverIndexed(ixs, fieldName) == FALSE

\* if (this.indexes[options.fieldName]) of ensureIndex
alreadyIndexed(ixs, fieldName) == HasIndex(ixs, fieldName)

\* what ensureIndex reports to its callback before it returns
ensureIndexReports(err, options) ==
    hist' = [MkHist(DirectOp("ensureIndex"), err, indexes, <<>>, <<>>)
                EXCEPT !.options = options]

\* Datastore.ensureIndex(options, cb).  The new index is put into this.indexes
\* before it is filled from getAllData, which reads this.indexes._id: called
\* for _id on a datastore whose _id index was removed, it reads the new, empty
\* index itself; called for another field then, it throws a TypeError inside
\* the try block, whose catch deletes the new index.
ensureIndex(options) ==
    /\ nDirect' = nDirect + 1
    /\ LET fieldName == options.fieldName
           unique == options.unique
           sparse == options.sparse
           expire == options.expire
       IN
       IF alreadyIndexed(indexes, fieldName)
       THEN /\ ensureIndexReports("none", options)
            /\ UNCHANGED <<indexes, ttlIndexes, io>>
       ELSE /\ ttlIndexes' = IF expire # NoExpire
                             THEN TtlSet(ttlIndexes, fieldName, expire)
                             ELSE ttlIndexes
            /\ IF ~HasIndex(Append(indexes, NewIndex(fieldName, unique, sparse)), "_id")
               THEN /\ ensureIndexReports("typeError", options)
                    /\ UNCHANGED <<indexes, io>>
               ELSE LET created == NewIndex(fieldName, unique, sparse)
                        r == Index_insertMultipleDocs(
                                 created, getAllData(Append(indexes, created)))
                    IN IF ~r.ok
                       THEN /\ ensureIndexReports("uniqueViolated", options)
                            /\ UNCHANGED <<indexes, io>>
                       ELSE /\ indexes' = Append(indexes, r.ix)
                            /\ persistNewStateDirect("ensureIndex",
                                   <<IndexCreatedRec(fieldName, unique, sparse, expire)>>,
                                   options)
    /\ UNCHANGED <<storageVars, inMemoryOnly, datafileExists, siblingFile, isReady, buffer,
                   tasks, currentTask, lastFinishedTask, immediates, datafile, proc, nextId,
                   meta, started, finished>>

EnsureIndex == MayCallDirect /\ \E options \in IndexOptions : ensureIndex(options)

\* Datastore.removeIndex(fieldName, cb)
removeIndex(fieldName) ==
    /\ nDirect' = nDirect + 1
    /\ indexes' = SelectSeq(indexes, LAMBDA ix : ix.fieldName # fieldName)
    /\ persistNewStateDirect("removeIndex", <<IndexRemovedRec(fieldName)>>, NoOptions)
    /\ UNCHANGED <<storageVars, inMemoryOnly, datafileExists, siblingFile, isReady, buffer,
                   tasks, currentTask, lastFinishedTask, immediates, ttlIndexes, datafile,
                   proc, nextId, meta, started, finished>>

RemoveIndex == MayCallDirect /\ \E fieldName \in IndexFieldNames : removeIndex(fieldName)

\* the calls of SpecIndex: ensureIndex with a unique TTL index among its
\* options, removeIndex with any index name, inserts of MaxIndexOps tasks
AllIndexOptions ==
    IndexOptions
    \cup {[fieldName |-> "a", unique |-> TRUE, sparse |-> FALSE, expire |-> ExpireSecs]}

EnsureIndexAny ==
    nDirect < MaxIndexCalls /\ \E options \in AllIndexOptions : ensureIndex(options)

RemoveIndexAny ==
    nDirect < MaxIndexCalls /\ \E fieldName \in IndexFieldNames : removeIndex(fieldName)

InsertBeside == NumOps < MaxIndexOps /\ NumQueued < MaxQueued /\ push("insert", FALSE)

\* s without its element i
RemoveAt(s, i) == SubSeq(s, 1, i - 1) \o SubSeq(s, i + 1, Len(s))

\* the appendFile of an ensureIndex or a removeIndex writes: its record is
\* in the file, or the append failed.  The appends in flight are not
\* ordered: any of them may write next.
DirectAppendLands ==
    /\ \E i \in 1..Len(io) : \E ok \in BOOLEAN :
         /\ io[i].st = "inflight"
         /\ datafile' = IF ok THEN datafile \o io[i].recs ELSE datafile
         /\ datafileExists' = (ok \/ datafileExists)
         /\ io' = [io EXCEPT ![i].st = IF ok THEN "written" ELSE "failed"]
    /\ hist' = NoHist
    /\ UNCHANGED <<storageVars, inMemoryOnly, siblingFile, isReady, buffer, tasks, currentTask,
                   lastFinishedTask, immediates, indexes, ttlIndexes, proc, nextId, nDirect,
                   meta, started, finished>>

\* the callback of the appendFile of an ensureIndex or a removeIndex, for
\* any append that has written or failed
DirectAppendDone ==
    /\ \E i \in 1..Len(io) :
         /\ io[i].st # "inflight"
         /\ hist' = MkHist(DirectOp(io[i].fn),
                           IF io[i].st = "written" THEN "none" ELSE "storage",
                           indexes, <<>>, <<>>)
         /\ io' = RemoveAt(io, i)
    /\ UNCHANGED <<storageVars, inMemoryOnly, datafileExists, siblingFile, isReady, buffer,
                   tasks, currentTask, lastFinishedTask, immediates, indexes, ttlIndexes,
                   datafile, proc, nextId, nDirect, meta, started, finished>>

\* ---------------------------------------------------------------------------
\* crashSafeWriteFile step by step, a crash of the process, and
\* ensureDatafileIntegrity as the next load runs it
\* ---------------------------------------------------------------------------

\* SpecStorage starts from a directory and an idle writer
InitStorage ==
    /\ inMemoryOnly = FALSE
    /\ isReady = FALSE
    /\ buffer = <<>>
    /\ tasks = <<>>
    /\ currentTask = NoTask
    /\ lastFinishedTask = NoTask
    /\ immediates = 0
    /\ indexes = <<NewUniqueStringIndex>>
    /\ ttlIndexes = {}
    /\ datafile = <<>>
    /\ datafileExists = FALSE
    /\ siblingFile = Missing
    /\ proc = ProcIdle
    /\ io = <<>>
    /\ nextId = 1
    /\ nDirect = 0
    /\ meta = <<>>
    /\ started = <<>>
    /\ finished = {}
    /\ hist = NoHist
    /\ files \in InitialDirs
    /\ writer = WriterIdle
    /\ integrity = IntegrityIdle
    /\ remover = RemoverIdle

\* the steps of crashSafeWriteFile that are under way
WriteSteps == {"flushDirBefore", "flushTarget", "writeTemp", "flushTemp", "rename",
               "flushDirAfter"}

\* the order of the functions crashSafeWriteFile gives legacyWaterfall; after
\* the last of them the callback of crashSafeWriteFile
AfterStep(pc) ==
    CASE pc = "flushDirBefore" -> "flushTarget"
      [] pc = "flushTarget" -> "writeTemp"
      [] pc = "writeTemp" -> "flushTemp"
      [] pc = "flushTemp" -> "rename"
      [] pc = "rename" -> "flushDirAfter"
      [] OTHER -> "returned"

\* a waterfall that goes on with the next step after an error
StepGoesOn ==
    writer' = [writer EXCEPT !.pc = AfterStep(writer.pc), !.err = "storage", !.fd = "none",
                  !.flushing = FALSE,
                  !.callbacks = IF AfterStep(writer.pc) = "returned" THEN @ + 1 ELSE @]

\* a step of the waterfall fails: the callback gets the error, and no later
\* step runs (legacyWaterfall: if (err) return callback(...))
StepFails ==
    writer' = [writer EXCEPT !.pc = "returned", !.err = "storage", !.fd = "none",
                  !.flushing = FALSE, !.callbacks = @ + 1]

\* a step of the waterfall succeeds: the next step is scheduled, or the
\* callback runs after the last step
StepTo(pc) ==
    writer' = [writer EXCEPT !.pc = pc, !.fd = "none", !.flushing = FALSE,
                  !.callbacks = IF pc = "returned" THEN @ + 1 ELSE @]

\* crashSafeWriteFile(filename, data, callback) is called, in the process
\* that made the last call or in the next one after a crash
CrashSafeWriteFile ==
    /\ writer.pc \in {"idle", "returned", "crashed"}
    /\ writer.calls < MaxWrites
    /\ \E data \in Payloads :
         writer' = [writer EXCEPT !.pc = "flushDirBefore", !.data = data, !.open = FALSE,
                       !.flushing = FALSE, !.fd = "none", !.written = 0, !.prev = files.target,
                       !.err = "none", !.crashed = FALSE, !.calls = @ + 1]
    /\ UNCHANGED <<dbVars, files, integrity, remover>>

\* flushToStorage of the directory
FlushDirBefore ==
    /\ writer.pc = "flushDirBefore"
    /\ \E ok \in BOOLEAN : IF ok THEN StepTo("flushTarget") ELSE StepFails
    /\ UNCHANGED <<dbVars, files, integrity, remover>>

\* the callback of fileExists(filename) in the second function of the
\* waterfall: flushToStorage of the data file is called if it exists, cb()
\* otherwise
FlushTargetAccess ==
    /\ writer.pc = "flushTarget"
    /\ ~writer.flushing
    /\ IF files.target.exists THEN writer' = [writer EXCEPT !.flushing = TRUE]
       ELSE StepTo("writeTemp")
    /\ UNCHANGED <<dbVars, files, integrity, remover>>

\* flushToStorage of the data file: open fails when the file is not there
\* any more
FlushTarget ==
    /\ writer.pc = "flushTarget"
    /\ writer.flushing
    /\ \E ok \in BOOLEAN :
         IF ok /\ files.target.exists THEN StepTo("writeTemp") ELSE StepFails
    /\ UNCHANGED <<dbVars, files, integrity, remover>>

\* a line written through the descriptor writeFile holds: it goes to the file
\* the descriptor was opened on, under the name that file has now
WriteLine(dir, fd, line) ==
    IF fd = "target" THEN [dir EXCEPT !.target = File(Append(@.content, line))]
    ELSE IF fd = "sibling" THEN [dir EXCEPT !.sibling = File(Append(@.content, line))]
    ELSE dir

\* writeFile of the sibling: the file is created or truncated, the lines are
\* written one after the other, then the callback runs; a failure leaves what
\* was written
WriteTemp ==
    /\ writer.pc = "writeTemp"
    /\ \E ok \in BOOLEAN :
         IF ~ok THEN StepFails /\ UNCHANGED files
         ELSE IF ~writer.open
         THEN /\ files' = [files EXCEPT !.sibling = File(<<>>)]
              /\ writer' = [writer EXCEPT !.open = TRUE, !.fd = "sibling"]
         ELSE IF writer.written < Len(writer.data)
         THEN /\ files' = WriteLine(files, writer.fd, writer.data[writer.written + 1])
              /\ writer' = [writer EXCEPT !.written = @ + 1]
         ELSE StepTo("flushTemp") /\ UNCHANGED files
    /\ UNCHANGED <<dbVars, integrity, remover>>

\* flushToStorage of the sibling: open fails when the sibling is not there
FlushTemp ==
    /\ writer.pc = "flushTemp"
    /\ \E ok \in BOOLEAN : IF ok /\ files.sibling.exists THEN StepTo("rename") ELSE StepFails
    /\ UNCHANGED <<dbVars, files, integrity, remover>>

\* rename of the sibling over the data file; it fails when the sibling is not
\* there
RenameTemp ==
    /\ writer.pc = "rename"
    /\ \E ok \in BOOLEAN :
         IF ok /\ files.sibling.exists
         THEN /\ files' = [target |-> files.sibling, sibling |-> Missing]
              /\ StepTo("flushDirAfter")
         ELSE StepFails /\ UNCHANGED files
    /\ UNCHANGED <<dbVars, integrity, remover>>

\* flushToStorage of the directory, then the callback
FlushDirAfter ==
    /\ writer.pc = "flushDirAfter"
    /\ \E ok \in BOOLEAN : IF ok THEN StepTo("returned") ELSE StepFails
    /\ UNCHANGED <<dbVars, files, integrity, remover>>

\* the process crashes while crashSafeWriteFile is under way: the files stay
\* as the steps done so far left them, and an ensureDatafileIntegrity or an
\* ensureFileDoesntExist under way in the process ends with it
Crash ==
    /\ writer.pc \in WriteSteps
    /\ writer' = [writer EXCEPT !.pc = "crashed", !.crashed = TRUE, !.fd = "none",
                     !.flushing = FALSE]
    /\ integrity' = IntegrityIdle
    /\ remover' = RemoverIdle
    /\ UNCHANGED <<dbVars, files>>

\* ensureDatafileIntegrity(filePath, callback) is called, as loadDatabase
\* calls it: fileExists(filePath) is under way
EnsureDatafileIntegrity ==
    /\ integrity.pc \in {"idle", "returned"}
    /\ integrity' = [pc |-> "accessTarget", err |-> "none", found |-> "none"]
    /\ UNCHANGED <<dbVars, files, writer, remover>>

\* the callback of fileExists(filePath)
IntegrityAccessTarget ==
    /\ integrity.pc = "accessTarget"
    /\ integrity' = [integrity EXCEPT !.pc = afterAccessTarget(files.target.exists),
                        !.found = IF files.target.exists THEN "target" ELSE "none"]
    /\ UNCHANGED <<dbVars, files, writer, remover>>

\* the callback of fileExists(tempFilename)
IntegrityAccessSibling ==
    /\ integrity.pc = "accessSibling"
    /\ integrity' = [integrity EXCEPT !.pc = afterAccessSibling(files.sibling.exists),
                        !.found = IF files.sibling.exists THEN "sibling" ELSE "nothing"]
    /\ UNCHANGED <<dbVars, files, writer, remover>>

\* writeFile(filePath, '') writes: the data file is there and empty, whatever
\* has been written to it since the checks; or the write fails
IntegrityWriteFile ==
    /\ integrity.pc = "writeFile"
    /\ \E ok \in BOOLEAN :
         /\ files' = IF ok THEN [files EXCEPT !.target = File(<<>>)] ELSE files
         /\ integrity' = [integrity EXCEPT !.pc = "callback",
                             !.err = IF ok THEN "none" ELSE "storage"]
    /\ UNCHANGED <<dbVars, writer, remover>>

\* rename(tempFilename, filePath) takes place: the sibling is the data file,
\* and a descriptor open on it stays on the file; or the rename fails, as it
\* does when the sibling is not there any more
IntegrityRename ==
    /\ integrity.pc = "rename"
    /\ \E ok \in BOOLEAN :
         IF ok /\ files.sibling.exists
         THEN /\ files' = [target |-> files.sibling, sibling |-> Missing]
              /\ writer' = [writer EXCEPT !.fd = IF @ = "sibling" THEN "target" ELSE @]
              /\ integrity' = [integrity EXCEPT !.pc = "callback"]
         ELSE /\ integrity' = [integrity EXCEPT !.pc = "callback", !.err = "storage"]
              /\ UNCHANGED <<files, writer>>
    /\ UNCHANGED <<dbVars, remover>>

\* the callback of that writeFile or rename calls the callback of
\* ensureDatafileIntegrity with its error
IntegrityDone ==
    /\ integrity.pc = "callback"
    /\ integrity' = [integrity EXCEPT !.pc = "returned"]
    /\ UNCHANGED <<dbVars, files, writer, remover>>

\* ensureFileDoesntExist(filePath, callback) is called: fileExists(filePath)
\* is under way
EnsureFileDoesntExist ==
    /\ remover.pc \in {"idle", "returned"}
    /\ remover' = [pc |-> "access", err |-> "none"]
    /\ UNCHANGED <<dbVars, files, writer, integrity>>

\* the callback of its fileExists(filePath): unlink is called when the data
\* file is there, callback(null) otherwise
DoesntExistAccess ==
    /\ remover.pc = "access"
    /\ remover' = [remover EXCEPT !.pc = IF files.target.exists THEN "unlink" ELSE "returned"]
    /\ UNCHANGED <<dbVars, files, writer, integrity>>

\* unlink(filePath) takes place: the data file is gone, and what is written
\* through a descriptor open on it reaches no file of the directory; or the
\* unlink fails, as it does when the data file is not there any more
DoesntExistUnlink ==
    /\ remover.pc = "unlink"
    /\ \E ok \in BOOLEAN :
         IF ok /\ files.target.exists
         THEN /\ files' = [files EXCEPT !.target = Missing]
              /\ writer' = [writer EXCEPT !.fd = IF @ = "target" THEN "unlinked" ELSE @]
              /\ remover' = [remover EXCEPT !.pc = "callback"]
         ELSE /\ remover' = [remover EXCEPT !.pc = "callback", !.err = "storage"]
              /\ UNCHANGED <<files, writer>>
    /\ UNCHANGED <<dbVars, integrity>>

\* the callback of that unlink calls the callback of ensureFileDoesntExist
\* with its error
DoesntExistDone ==
    /\ remover.pc = "callback"
    /\ remover' = [remover EXCEPT !.pc = "returned"]
    /\ UNCHANGED <<dbVars, files, writer, integrity>>

\* ---------------------------------------------------------------------------
\* The executor under task functions of its callers, which invoke the
\* completion callback they were given any number of times
\* ---------------------------------------------------------------------------

\* an executor constructed with immediatelyReady
InitCallback == Init /\ inMemoryOnly

PushTask == NumOps < MaxPush /\ push("task", FALSE)

\* _processNext starts the task; its function returns
StartTask ==
    /\ CanStart
    /\ Head(tasks).fn = "task"
    /\ LET t == Head(tasks)
       IN Begin(t) /\ Suspend(t, ProcIdle)
    /\ UNCHANGED <<storageVars, inMemoryOnly, datafileExists, siblingFile, isReady, buffer,
                   indexes, ttlIndexes, datafile, io, nextId, nDirect, meta>>

\* the function of a started task invokes the callback it was given, for the
\* first time or again: _onTaskFinished runs
InvokeCallback ==
    /\ immediates < MaxPending
    /\ \E id \in SeqToSet(started) :
         LET t == [id |-> id, fn |-> "callback"]
         IN /\ IF currentTask = lastFinishedTask
               THEN /\ hist' = MkHist(t, "alreadyCalled", <<>>, <<>>, <<>>)
                    /\ UNCHANGED <<currentTask, lastFinishedTask, immediates>>
               ELSE /\ onTaskFinished(currentTask, immediates)
                    /\ hist' = MkHist(t, "none", <<>>, <<>>, <<>>)
            /\ finished' = finished \cup {id}
    /\ UNCHANGED <<storageVars, inMemoryOnly, datafileExists, siblingFile, isReady, buffer,
                   tasks, indexes, ttlIndexes, datafile, proc, io, nextId, nDirect, meta,
                   started>>

\* ---------------------------------------------------------------------------
\* Datastore._updateOrInsert called with the options upsert and multi
\* ---------------------------------------------------------------------------

UpdateAny == NumOps < MaxUpsertOps /\ push("update", FALSE)

\* _processNext starts an update whose options have upsert and multi set:
\* _updateOrInsert throws out of the setImmediate callback that runs
\* _processNext; neither the callback of the call nor _onTaskFinished is
\* invoked
StartUpsertMulti ==
    /\ CanStart
    /\ Head(tasks).fn = "update"
    /\ LET t == Head(tasks)
       IN Begin(t) /\ Suspend(t, [ProcIdle EXCEPT !.pc = "thrown"])
    /\ UNCHANGED <<storageVars, inMemoryOnly, datafileExists, siblingFile, isReady, buffer,
                   indexes, ttlIndexes, datafile, io, nextId, nDirect, meta>>

\* ---------------------------------------------------------------------------
\* Datastore._updateOrInsert called with the option upsert, multi not set.
\* No index of SpecUpsert has a TTL.
\* ---------------------------------------------------------------------------

UpsertCall == NumOps < MaxUpsertOps /\ push("upsert", FALSE)

\* _processNext starts an upsert: Cursor._exec calls getCandidates, which
\* reads the index names and defers step 1
StartUpsert ==
    /\ CanStart
    /\ Head(tasks).fn = "upsert"
    /\ LET t == Head(tasks)
       IN /\ Begin(t)
          /\ Suspend(t, [ProcIdle EXCEPT !.pc = "step1",
                            !.indexNames = IndexNames(indexes)])
    /\ UNCHANGED <<storageVars, inMemoryOnly, datafileExists, siblingFile, isReady, buffer,
                   indexes, ttlIndexes, datafile, io, nextId, nDirect, meta>>

\* the loop of Cursor._exec with limit 1: "found" at the first candidate
\* that matches, "throws" when matchQuery throws before that, else "none"
RECURSIVE firstMatch(_, _)
firstMatch(candidates, query) ==
    IF candidates = <<>> THEN "none"
    ELSE LET m == matchQuery(Head(candidates), query)
         IN IF m = "throws" THEN "throws"
            ELSE IF m = "true" THEN "found"
            ELSE firstMatch(Tail(candidates), query)

\* cloneDeep(query, true): the query without the keys that begin with $; an
\* _id of "" stands for no _id
upsertBase(query) ==
    CASE query.qt = "id" -> [_id |-> query.id, a |-> Undefined]
      [] query.qt = "field" /\ query.f = "a" -> [_id |-> "", a |-> Num(query.k)]
      [] OTHER -> NoDoc

\* the ids generateUid gives, one for each task
NewIds == <<"g1", "g2", "g3", "g4", "g5", "g6">>

\* createNewId for the insert of task t: an id that is not in use
createNewId(t) == NewIds[t.id]

\* the document _updateOrInsert hands to _insert: [ok, doc, err].  The update
\* query passes checkObject when it is a document; with modifiers it is
\* applied to the base made from the query.
toBeInserted(query, updateQuery) ==
    IF updateQuery.ut = "replace"
    THEN [ok |-> TRUE, doc |-> [_id |-> updateQuery.id, a |-> updateQuery.val], err |-> "none"]
    ELSE IF query.qt = "idin"
    THEN \* the base is {_id: {}}: the clone modifyDoc makes of it holds another
         \* object under _id, so its last test throws, unless checkObject has
         \* thrown before on the key of the modifier
         [ok |-> FALSE, doc |-> NoDoc,
          err |-> IF updateQuery.ut = "badkey" THEN "modifier" ELSE "changeId"]
    ELSE modifyDoc(upsertBase(query), updateQuery)

\* the callback of the Cursor of _updateOrInsert.  The update query of the
\* call is drawn here, where it is first read.  A document found: _update is
\* called and getCandidates starts again.  None found: the document is
\* built and _insert puts it in the indexes and calls persistNewState.
UpsertDecide ==
    /\ CandidatesReady
    /\ currentTask.fn = "upsert"
    /\ \E updateQuery \in UpdateQueries :
         LET found == firstMatch(proc.candidates, proc.query)
             b == toBeInserted(proc.query, updateQuery)
             preparedDoc == IF b.doc._id = ""
                            THEN [b.doc EXCEPT !._id = createNewId(currentTask)]
                            ELSE b.doc
             r == addToIndexes(indexes, preparedDoc)
         IN IF found = "throws"
            THEN /\ CompleteAsync(MkHist(currentTask, "query", indexes, <<>>, <<>>))
                 /\ UNCHANGED indexes
            ELSE IF found = "found"
            THEN /\ Continue([proc EXCEPT !.pc = "ustep1", !.updateQuery = updateQuery,
                                 !.indexNames = IndexNames(indexes), !.candidates = <<>>])
                 /\ UNCHANGED indexes
            ELSE IF ~b.ok
            THEN /\ CompleteAsync(MkHist(currentTask, b.err, indexes, <<>>, <<>>))
                 /\ UNCHANGED indexes
            ELSE /\ indexes' = r.ixs
                 /\ IF ~r.ok
                    THEN CompleteAsync(MkHist(currentTask, "uniqueViolated", indexes,
                                              <<>>, <<preparedDoc>>))
                    ELSE IF inMemoryOnly
                    THEN CompleteAsync([MkHist(currentTask, "none", indexes, <<>>,
                                               <<preparedDoc>>)
                                           EXCEPT !.numAffected = 1, !.upsert = TRUE])
                    ELSE Continue([proc EXCEPT !.pc = "append",
                                      !.toPersist = DocRecs(<<preparedDoc>>),
                                      !.news = <<preparedDoc>>, !.before = indexes,
                                      !.numAffected = 1, !.upsert = TRUE])
    /\ UNCHANGED <<storageVars, inMemoryOnly, datafileExists, siblingFile, isReady, buffer,
                   tasks, ttlIndexes, datafile, io, nextId, nDirect, meta, started>>

\* step 1 of the getCandidates that _update calls for the upsert
UpsertCandidates ==
    /\ proc.pc = "ustep1"
    /\ IF step1Throws(indexes, proc.query, proc.indexNames)
       THEN proc' = [proc EXCEPT !.pc = "dead"]
       ELSE proc' = [proc EXCEPT !.pc = "ustep2",
                        !.candidates = getCandidatesStep1(indexes, proc.query, proc.indexNames)]
    /\ hist' = NoHist
    /\ UNCHANGED <<storageVars, inMemoryOnly, datafileExists, siblingFile, isReady, buffer,
                   tasks, currentTask, lastFinishedTask, immediates, indexes, ttlIndexes,
                   datafile, io, nextId, nDirect, meta, started, finished>>

\* step 2 of that getCandidates and the callback of _update, with the update
\* query of the upsert and multi not set
UpsertUpdate ==
    /\ proc.pc = "ustep2"
    /\ finishUpdate(proc.updateQuery, FALSE)
    /\ UNCHANGED <<storageVars, inMemoryOnly, datafileExists, siblingFile, isReady, buffer,
                   tasks, ttlIndexes, datafile, io, nextId, nDirect, meta, started>>

\* ---------------------------------------------------------------------------
\* Step 2 of getCandidates with expired candidates: each is removed by
\* _remove({_id}, {}, _cb), one after the other, before the callback of
\* getCandidates gets the valid candidates
\* ---------------------------------------------------------------------------

StaleX == [_id |-> "x", a |-> Date(10)]

\* the datafiles of SpecTtl: dates that have expired under ExpireSecs (10),
\* a date at the threshold (12), a number, and no field a
TtlFiles ==
    {<<DocRec(StaleX), DocRec([_id |-> "y", a |-> Date(10)])>>,
     <<DocRec(StaleX), DocRec([_id |-> "y", a |-> Date(12)])>>,
     <<DocRec(StaleX), DocRec([_id |-> "y", a |-> Num(1)])>>,
     <<DocRec([_id |-> "x", a |-> Date(12)]), DocRec(StoredY)>>}

InitTtl ==
    /\ inMemoryOnly = FALSE
    /\ isReady = FALSE
    /\ buffer = <<>>
    /\ tasks = <<>>
    /\ currentTask = NoTask
    /\ lastFinishedTask = NoTask
    /\ immediates = 0
    /\ indexes = <<NewUniqueStringIndex>>
    /\ ttlIndexes = {}
    /\ datafile \in TtlFiles
    /\ datafileExists = TRUE
    /\ siblingFile = Missing
    /\ proc = ProcIdle
    /\ io = <<>>
    /\ nextId = 1
    /\ nDirect = 0
    /\ meta = <<>>
    /\ started = <<>>
    /\ finished = {}
    /\ hist = NoHist
    /\ files = [target |-> Missing, sibling |-> Missing]
    /\ writer = WriterIdle
    /\ integrity = IntegrityIdle
    /\ remover = RemoverIdle

\* ensureIndex({fieldName: 'a', expireAfterSeconds: ExpireSecs})
EnsureTtlIndex ==
    /\ MayCallDirect
    /\ ensureIndex([fieldName |-> "a", unique |-> FALSE, sparse |-> FALSE,
                    expire |-> ExpireSecs])

FindStale == NumOps < MaxTtlOps /\ push("find", FALSE)

UpdateStale == NumOps < MaxTtlOps /\ push("update", FALSE)

\* step 2 of getCandidates finds expired candidates: validDocs are kept for
\* the callback (candidates), the expired ones are handed to legacyEachSeries
\* (olds: those still to remove; news: all of them)
ExpireStaleDocs ==
    /\ proc.pc = "step2"
    /\ currentTask.fn \in {"find", "update"}
    /\ LET expired == expiredDocs(proc.candidates, ttlIndexes, Now)
       IN /\ expired # <<>>
          /\ Continue([proc EXCEPT !.pc = "reap",
                          !.candidates = validDocs(proc.candidates, ttlIndexes, Now),
                          !.olds = expired, !.news = expired])
    /\ UNCHANGED <<storageVars, inMemoryOnly, datafileExists, siblingFile, isReady, buffer,
                   tasks, indexes, ttlIndexes, datafile, io, nextId, nDirect, meta,
                   started>>

\* legacyEachSeries after the callback of one removal: an error ends the
\* series, else the next document is taken or the series is done
eachSeriesNext(rest, err) ==
    IF err # "none" \/ rest = <<>> THEN "valid" ELSE "reap"

\* step 1 of the getCandidates of _remove({_id}, {}, _cb) for the first
\* expired document still to remove: the candidates are read from the _id
\* index (removing), and step 2 is deferred
ReapCandidates ==
    /\ proc.pc = "reap"
    /\ LET query == QId(Head(proc.olds)._id)
       IN Continue([proc EXCEPT !.pc = "reapStep2",
                       !.removing = getCandidatesStep1(indexes, query, IndexNames(indexes))])
    /\ UNCHANGED <<storageVars, inMemoryOnly, datafileExists, siblingFile, isReady, buffer,
                   tasks, indexes, ttlIndexes, datafile, io, nextId, nDirect, meta,
                   started>>

\* step 2 of that getCandidates and the callback of _remove: the document is
\* taken out of every index, and persistNewState appends its tombstone
ReapRemove ==
    /\ proc.pc = "reapStep2"
    /\ LET query == QId(Head(proc.olds)._id)
           r == removeMatching(indexes, proc.removing, query, FALSE, <<>>)
       IN /\ indexes' = r.ixs
          /\ IF inMemoryOnly \/ r.removedDocs = <<>>
             THEN Continue([proc EXCEPT !.pc = eachSeriesNext(Tail(proc.olds), r.err),
                               !.olds = Tail(proc.olds), !.removing = <<>>])
             ELSE Continue([proc EXCEPT !.pc = "reapAppend",
                               !.toPersist = r.removedDocs, !.removing = <<>>])
    /\ UNCHANGED <<storageVars, inMemoryOnly, datafileExists, siblingFile, isReady, buffer,
                   tasks, ttlIndexes, datafile, io, nextId, nDirect, meta, started>>

\* the appendFile of that removal writes the tombstone, or fails
ReapAppendLands ==
    /\ proc.pc = "reapAppend"
    /\ \E ok \in BOOLEAN :
         /\ datafile' = IF ok THEN datafile \o proc.toPersist ELSE datafile
         /\ datafileExists' = (ok \/ datafileExists)
         /\ Continue([proc EXCEPT !.pc = IF ok THEN "reapAppended" ELSE "reapAppendFailed"])
    /\ UNCHANGED <<storageVars, inMemoryOnly, siblingFile, isReady, buffer, tasks, indexes,
                   ttlIndexes, io, nextId, nDirect, meta, started>>

\* the callback of the appendFile of that removal: the error of a failed
\* append goes to legacyEachSeries, whose final callback ignores it and
\* passes the valid candidates on.  toPersist keeps the tombstone of a
\* failed append.
ReapAppendDone ==
    /\ proc.pc \in {"reapAppended", "reapAppendFailed"}
    /\ LET ok == proc.pc = "reapAppended"
       IN Continue([proc EXCEPT
                       !.pc = eachSeriesNext(Tail(proc.olds), IF ok THEN "none" ELSE "storage"),
                       !.olds = Tail(proc.olds),
                       !.toPersist = IF ok THEN <<>> ELSE proc.toPersist])
    /\ UNCHANGED <<storageVars, inMemoryOnly, datafileExists, siblingFile, isReady, buffer,
                   tasks, indexes, ttlIndexes, datafile, io, nextId, nDirect, meta,
                   started>>

\* ---------------------------------------------------------------------------
\* find({_id: {$in: ids}}) on an in-memory datastore
\* ---------------------------------------------------------------------------

InitIn == Init /\ inMemoryOnly

InsertIn == NumOps < MaxInOps /\ push("insert", FALSE)

FindIn == NumOps < MaxInOps /\ push("find", FALSE)

\* step 1 of getCandidates for a find whose query is {_id: {$in: ids}}: the
\* query has the one key _id and query._id is truthy, so the candidates are
\* this.indexes._id.getMatching(query._id)
CandidatesStep1In ==
    /\ proc.pc = "step1"
    /\ currentTask.fn = "find"
    /\ \E query \in InQueries :
         proc' = [proc EXCEPT !.pc = "step2", !.query = query,
                     !.candidates = getCandidatesStep1(indexes, query, proc.indexNames)]
    /\ hist' = NoHist
    /\ UNCHANGED <<storageVars, inMemoryOnly, datafileExists, siblingFile, isReady, buffer,
                   tasks, currentTask, lastFinishedTask, immediates, indexes, ttlIndexes,
                   datafile, io, nextId, nDirect, meta, started, finished>>

\* ---------------------------------------------------------------------------
\* getCandidates under every kind of query, beside ensureIndex
\* ---------------------------------------------------------------------------

InsertForFind == NumOps < MaxCandidateOps /\ push("insert", FALSE)

FindCandidates == NumOps < MaxCandidateOps /\ push("find", FALSE)

EnsureIndexIn ==
    nDirect < MaxCandidateIndexCalls /\ \E options \in IndexOptions : ensureIndex(options)

\* step 1 of getCandidates for a $in or a range query on field a
CandidatesStep1Field ==
    /\ proc.pc = "step1"
    /\ currentTask.fn = "find"
    /\ \E query \in FieldQueries :
         proc' = [proc EXCEPT !.pc = "step2", !.query = query,
                     !.candidates = getCandidatesStep1(indexes, query, proc.indexNames)]
    /\ hist' = NoHist
    /\ UNCHANGED <<storageVars, inMemoryOnly, datafileExists, siblingFile, isReady, buffer,
                   tasks, currentTask, lastFinishedTask, immediates, indexes, ttlIndexes,
                   datafile, io, nextId, nDirect, meta, started, finished>>

\* ---------------------------------------------------------------------------
\* treatRawData on the content of a file
\* ---------------------------------------------------------------------------

\* the _ids of the records of a file: those of the documents, and the empty
\* string, an _id insert accepts as it accepts any string
RawIds == Ids \cup {""}

\* the document insert({_id: '', a: 1}) stores and persistNewState appends
StoredEmptyId == [_id |-> "", a |-> Num(1)]

\* the lines of the files: two versions of document x, document y, the
\* document with the empty _id, their tombstones, two definitions of the index
\* on a, its removal, a corrupt line
RawRecs ==
    {DocRec(StoredX), DocRec([_id |-> "x", a |-> Arr(<<2, 1>>)]), DeletedRec("x"),
     DocRec(StoredY), DeletedRec("y"), DocRec(StoredEmptyId), DeletedRec(""),
     IndexCreatedRec("a", TRUE, FALSE, NoExpire),
     IndexCreatedRec("a", FALSE, TRUE, NoExpire), IndexRemovedRec("a"), CorruptRec}

\* the files: every short one, and long ones with a corrupt line between
\* two lines
RawFiles ==
    UNION {[1..n -> RawRecs] : n \in 0..MaxRawLines}
    \cup {[i \in 1..PaddingLines |-> DocRec(StoredY)] \o <<r1, CorruptRec, r2>> :
             r1 \in RawRecs \ {CorruptRec}, r2 \in RawRecs \ {CorruptRec}}

InitRaw ==
    /\ inMemoryOnly = FALSE
    /\ isReady = FALSE
    /\ buffer = <<>>
    /\ tasks = <<>>
    /\ currentTask = NoTask
    /\ lastFinishedTask = NoTask
    /\ immediates = 0
    /\ indexes = <<NewUniqueStringIndex>>
    /\ ttlIndexes = {}
    /\ datafile \in RawFiles
    /\ datafileExists = TRUE
    /\ siblingFile = Missing
    /\ proc = ProcIdle
    /\ io = <<>>
    /\ nextId = 1
    /\ nDirect = 0
    /\ meta = <<>>
    /\ started = <<>>
    /\ finished = {}
    /\ hist = NoHist
    /\ files = [target |-> Missing, sibling |-> Missing]
    /\ writer = WriterIdle
    /\ integrity = IntegrityIdle
    /\ remover = RemoverIdle

\* Persistence.treatRawData(rawData): it throws, or returns {data, indexes},
\* kept here in candidates and toPersist
TreatRawData ==
    /\ proc.pc = "idle"
    /\ proc' = IF tooCorrupt(datafile) THEN [proc EXCEPT !.pc = "corrupt"]
               ELSE [proc EXCEPT !.pc = "treated",
                        !.candidates = treatRawData(datafile).data,
                        !.toPersist = treatRawData(datafile).indexes]
    /\ UNCHANGED <<storageVars, inMemoryOnly, datafileExists, siblingFile, isReady, buffer,
                   tasks, currentTask, lastFinishedTask, immediates, indexes, ttlIndexes,
                   datafile, io, nextId, nDirect, meta, started, finished, hist>>

\* ---------------------------------------------------------------------------
\* The operations of a ready in-memory datastore, each run to its callback
\* ---------------------------------------------------------------------------

InsertLive == NumOps < MaxLiveOps /\ push("insert", FALSE)

UpdateLive == NumOps < MaxLiveOps /\ push("update", FALSE)

RemoveLive == NumOps < MaxLiveOps /\ push("remove", FALSE)

FindLive == NumOps < MaxLiveOps /\ push("find", FALSE)

\* what the event loop runs: the setImmediate callbacks of the executor and
\* of getCandidates
LiveSteps ==
    \/ ProcessNextIdle
    \/ StartInsert
    \/ StartQuery
    \/ StartUpsertMulti
    \/ CandidatesStep1
    \/ FinishFind
    \/ FinishUpdate
    \/ FinishRemove

\* ---------------------------------------------------------------------------
\* Inserts of documents that carry no _id
\* ---------------------------------------------------------------------------

\* the strings generateUid returns in SpecNewId: random, so any of them at
\* any call; there are enough of them to give every document of every
\* insert an _id of its own
Uids ==
    LET pool == <<"x", "y", "z", "w", "u", "v", "s", "t">>
        n == IF 2 * MaxNewIdOps < Len(pool) THEN 2 * MaxNewIdOps ELSE Len(pool)
    IN {pool[i] : i \in 1..n}

\* the ids createNewId can return: its loop ends at the first generated id
\* that indexes._id.getMatching does not find
createNewIdFrom(ixs) ==
    {id \in Uids : USI_getMatching(ixs[IndexPos(ixs, "_id")], id) = <<>>}

\* the documents handed to insert without _id, one or a batch of two, by
\* their field a
NoIdBatches ==
    {<<a>> : a \in {Undefined, Num(1)}}
    \cup {<<a1, a2>> : a1 \in {Undefined, Num(1)}, a2 \in {Undefined, Num(1)}}

\* docs.map(...) of _insert: every document gets its _id from createNewId
\* before any of them is added to the indexes
PreparedDocs(ixs, docs) ==
    {[i \in 1..Len(docs) |-> [_id |-> ids[i], a |-> docs[i]]] :
        ids \in [1..Len(docs) -> createNewIdFrom(ixs)]}

InsertNoId == NumOps < MaxNewIdOps /\ push("insert", FALSE)

\* Datastore._insert of documents without _id on an in-memory datastore
StartInsertNoId ==
    /\ CanStart
    /\ Head(tasks).fn = "insert"
    /\ inMemoryOnly
    /\ LET t == Head(tasks)
       IN /\ Begin(t)
          /\ \E docs \in NoIdBatches : \E preparedDocs \in PreparedDocs(indexes, docs) :
                 LET r == IF Len(preparedDocs) = 1
                          THEN addToIndexes(indexes, preparedDocs[1])
                          ELSE addMultipleDocsToIndexes(indexes, preparedDocs)
                 IN /\ indexes' = r.ixs
                    /\ CompleteSync(t, MkHist(t, IF r.ok THEN "none" ELSE "uniqueViolated",
                                              indexes, <<>>, preparedDocs))
    /\ UNCHANGED <<storageVars, inMemoryOnly, datafileExists, siblingFile, isReady, buffer,
                   ttlIndexes, datafile, io, nextId, nDirect, meta>>

\* ---------------------------------------------------------------------------
\* Cursor._exec with skip, limit and sort
\* ---------------------------------------------------------------------------

\* compareThings on undefined and numbers: undefined comes first
compareThings(a, b) ==
    IF a.v = <<>> THEN (IF b.v = <<>> THEN 0 ELSE -1)
    ELSE IF b.v = <<>> THEN 1
    ELSE IF a.v[1] < b.v[1] THEN -1
    ELSE IF a.v[1] > b.v[1] THEN 1
    ELSE 0

\* the comparison function of the sort of Cursor._exec, for {a: direction}
sortCompare(a, b, direction) ==
    direction * compareThings(getDotValue(a, "a"), getDotValue(b, "a"))

\* Array.prototype.sort, which is stable: doc goes behind the last element
\* that does not compare above it
RECURSIVE sortInsert(_, _, _)
sortInsert(sorted, doc, direction) ==
    IF sorted = <<>> THEN <<doc>>
    ELSE IF sortCompare(sorted[Len(sorted)], doc, direction) <= 0
         THEN Append(sorted, doc)
         ELSE Append(sortInsert(SubSeq(sorted, 1, Len(sorted) - 1), doc, direction),
                     sorted[Len(sorted)])

RECURSIVE sortDocs(_, _)
sortDocs(docs, direction) ==
    IF docs = <<>> THEN <<>>
    ELSE sortInsert(sortDocs(SubSeq(docs, 1, Len(docs) - 1), direction),
                    docs[Len(docs)], direction)

\* Array.prototype.slice(start, end) for 0 <= start <= end
slice(docs, start, end) ==
    SubSeq(docs, start + 1, IF end < Len(docs) THEN end ELSE Len(docs))

\* a slice that takes limit 0 for a limit
sliceEndOfLimit(skip, limit, length) == skip + limit

\* this._skip + (this._limit || docs.length)
sliceEnd(skip, limit, length) == skip + (IF limit # 0 THEN limit ELSE length)

\* the sorted path of Cursor._exec: filter, sort, then skip and limit
execSorted(candidates, query, skip, limit, direction) ==
    LET docs == sortDocs(SelectSeq(candidates, LAMBDA d : matchQuery(d, query) = "true"),
                         direction)
    IN IF limit # 0 \/ skip # 0
       THEN slice(docs, skip, sliceEnd(skip, limit, Len(docs)))
       ELSE docs

\* the unsorted path of Cursor._exec: one loop over the candidates, left at
\* the break when the decremented stillToAdd is 0
RECURSIVE execLoop(_, _, _, _, _)
execLoop(candidates, query, stillToSkip, stillToAdd, docs) ==
    IF candidates = <<>> THEN docs
    ELSE IF matchQuery(Head(candidates), query) # "true"
         THEN execLoop(Tail(candidates), query, stillToSkip, stillToAdd, docs)
    ELSE IF stillToSkip # 0
         THEN execLoop(Tail(candidates), query, stillToSkip - 1, stillToAdd, docs)
    ELSE IF stillToAdd - 1 = 0
         THEN Append(docs, Head(candidates))
    ELSE execLoop(Tail(candidates), query, stillToSkip, stillToAdd - 1,
                  Append(docs, Head(candidates)))

\* the documents Cursor._exec passes on; sort 0 stands for no sort
execCursor(candidates, query, cursor) ==
    IF cursor.sort # 0
    THEN execSorted(candidates, query, cursor.skip, cursor.limit, cursor.sort)
    ELSE execLoop(candidates, query, cursor.skip, cursor.limit, <<>>)

\* the documents of the candidates, by position: each has its own _id
CursorIds == <<"x", "y", "z", "w">>

CursorCandidates ==
    UNION {{[i \in 1..n |-> [_id |-> CursorIds[i], a |-> vals[i]]] :
               vals \in [1..n -> {Undefined, Num(1), Num(2)}]} : n \in 0..MaxCursorDocs}

\* the task {this: cursor, fn: _exec} with the settings of the cursor
Cursors == [id : {1}, fn : {"find"}, skip : 0..MaxSkip, limit : 0..MaxLimit, sort : {0, 1, -1}]

\* getCandidates has called back with the candidates of the query
InitCursor ==
    /\ inMemoryOnly = TRUE
    /\ isReady = TRUE
    /\ buffer = <<>>
    /\ tasks = <<>>
    /\ currentTask \in Cursors
    /\ lastFinishedTask = NoTask
    /\ immediates = 0
    /\ indexes = <<NewUniqueStringIndex>>
    /\ ttlIndexes = {}
    /\ datafile = <<>>
    /\ datafileExists = FALSE
    /\ siblingFile = Missing
    /\ \E candidates \in CursorCandidates : \E query \in {QAll, QField("a", 1)} :
          proc = [ProcIdle EXCEPT !.pc = "valid", !.query = query,
                                  !.candidates = candidates]
    /\ io = <<>>
    /\ nextId = 1
    /\ nDirect = 0
    /\ meta = <<>>
    /\ started = <<>>
    /\ finished = {}
    /\ hist = NoHist
    /\ files = [target |-> Missing, sibling |-> Missing]
    /\ writer = WriterIdle
    /\ integrity = IntegrityIdle
    /\ remover = RemoverIdle

\* the callback Cursor._exec gives to getCandidates, with no projection
ExecCursor ==
    /\ proc.pc = "valid"
    /\ proc' = [proc EXCEPT !.pc = "executed"]
    /\ hist' = [NoHist EXCEPT !.id = currentTask.id, !.fn = "find",
                   !.found = execCursor(proc.candidates, proc.query, currentTask)]
    /\ UNCHANGED <<storageVars, inMemoryOnly, datafileExists, siblingFile, isReady, buffer,
                   tasks, currentTask, lastFinishedTask, immediates, indexes, ttlIndexes,
                   datafile, io, nextId, nDirect, meta, started, finished>>

\* ---------------------------------------------------------------------------
\* Cursor.project, and a cursor executed twice
\* ---------------------------------------------------------------------------

\* a projection by its keys _id, a and b: "keep" for 1, "omit" for 0,
\* "absent" for a key it does not have; null and {} have no key
Projections == [id : {"absent", "omit", "keep"}, a : {"absent", "omit", "keep"},
                b : {"absent", "omit", "keep"}]

\* !this._projection || !Object.keys(this._projection).length
noProjection(projection) ==
    projection.id = "absent" /\ projection.a = "absent" /\ projection.b = "absent"

\* the loop over the keys a and b of the copy without _id: it throws when the
\* two are present with different values; action is the value of the last
\* key, "absent" for undefined
projectionThrows(projection) ==
    projection.a # "absent" /\ projection.b # "absent" /\ projection.a # projection.b

projectionAction(projection) ==
    IF projection.b # "absent" THEN projection.b ELSE projection.a

\* what the loop over the candidates pushes for one candidate; no document
\* has a field b, and an _id of "" stands for no _id
projectDoc(candidate, projection, keepId) ==
    [_id |-> IF keepId THEN candidate._id ELSE "",
     a |-> IF projectionAction(projection) = "keep"
           THEN (IF projection.a # "absent" THEN getDotValue(candidate, "a") ELSE Undefined)
           ELSE (IF projection.a # "absent" THEN Undefined ELSE candidate.a)]

\* Cursor.project(candidates): [err, docs], and the _projection the cursor
\* has afterwards
project(projection, candidates) ==
    IF noProjection(projection)
    THEN [err |-> "none", docs |-> candidates, projection |-> projection]
    ELSE LET keepId == projection.id # "omit"
             copy == [projection EXCEPT !.id = "absent"]
         IN IF projectionThrows(copy)
            THEN [err |-> "projection", docs |-> <<>>, projection |-> copy]
            ELSE [err |-> "none",
                  docs |-> [i \in 1..Len(candidates) |->
                               projectDoc(candidates[i], copy, keepId)],
                  projection |-> copy]

ProjectCandidates ==
    UNION {{[i \in 1..n |-> [_id |-> CursorIds[i], a |-> vals[i]]] :
               vals \in [1..n -> {Undefined, Num(1)}]} : n \in 0..MaxProjectDocs}

\* getCandidates has called back for the first execution of a cursor made
\* with a projection (given); _projection is the field of the cursor
InitProject ==
    /\ inMemoryOnly = TRUE
    /\ isReady = TRUE
    /\ buffer = <<>>
    /\ tasks = <<>>
    /\ \E given \in Projections :
          currentTask = [id |-> 1, fn |-> "find", given |-> given, projection |-> given]
    /\ lastFinishedTask = NoTask
    /\ immediates = 0
    /\ indexes = <<NewUniqueStringIndex>>
    /\ ttlIndexes = {}
    /\ datafile = <<>>
    /\ datafileExists = FALSE
    /\ siblingFile = Missing
    /\ \E candidates \in ProjectCandidates :
          proc = [ProcIdle EXCEPT !.pc = "valid", !.candidates = candidates]
    /\ io = <<>>
    /\ nextId = 1
    /\ nDirect = 0
    /\ meta = <<>>
    /\ started = <<>>
    /\ finished = {}
    /\ hist = NoHist
    /\ files = [target |-> Missing, sibling |-> Missing]
    /\ writer = WriterIdle
    /\ integrity = IntegrityIdle
    /\ remover = RemoverIdle

\* the callback Cursor._exec gives to getCandidates, for a match-all query
\* without sort, skip and limit, in the first and in the second execution of
\* the cursor against the same documents; meta keeps what each execution
\* passed to its callback
ExecProject ==
    /\ proc.pc \in {"valid", "executed"}
    /\ LET r == project(currentTask.projection, proc.candidates)
       IN /\ currentTask' = [currentTask EXCEPT !.projection = r.projection]
          /\ meta' = Append(meta, [err |-> r.err, docs |-> r.docs])
          /\ hist' = [NoHist EXCEPT !.id = currentTask.id, !.fn = "find",
                         !.err = r.err, !.found = r.docs]
    /\ proc' = [proc EXCEPT !.pc = IF proc.pc = "valid" THEN "executed" ELSE "executedTwice"]
    /\ UNCHANGED <<storageVars, inMemoryOnly, datafileExists, siblingFile, isReady, buffer,
                   tasks, lastFinishedTask, immediates, indexes, ttlIndexes, datafile, io,
                   nextId, nDirect, started, finished>>

\* ---------------------------------------------------------------------------
\* Completion callbacks that throw
\* ---------------------------------------------------------------------------

\* the calls of SpecThrow
InsertThrow == NumOps < MaxThrowOps /\ push("insert", FALSE)

UpdateThrow == NumOps < MaxThrowOps /\ push("update", FALSE)

RemoveThrow == NumOps < MaxThrowOps /\ push("remove", FALSE)

FindThrow == NumOps < MaxThrowOps /\ push("find", FALSE)

\* _insert reports to the callback of an insert before it returns to
\* _processNext, which a setImmediate has called
InsertCallback ==
    \E cb \in Callbacks :
        startInsert(cb)

\* _update reports to the callback of an update
UpdateCallback ==
    /\ CandidatesReady
    /\ currentTask.fn = "update"
    /\ \E updateQuery \in UpdateQueries, multi \in BOOLEAN, cb \in Callbacks :
         finishUpdateWith(updateQuery, multi, cb)
    /\ UNCHANGED <<storageVars, inMemoryOnly, datafileExists, siblingFile, isReady, buffer,
                   tasks, ttlIndexes, datafile, io, nextId, nDirect, meta, started>>

\* _remove reports to the callback of a remove
RemoveCallback ==
    \E cb \in Callbacks :
        finishRemove(cb)

\* Cursor._exec reports to the callback of a find
FindCallback ==
    /\ CandidatesReady
    /\ currentTask.fn = "find"
    /\ LET r == Cursor_exec(proc.candidates, proc.query)
       IN \E cb \in Callbacks :
            wrappedCallback(currentTask, immediates,
                            [MkHist(currentTask, r.err, indexes, <<>>, <<>>)
                                EXCEPT !.found = r.res], cb)
    /\ UNCHANGED <<storageVars, inMemoryOnly, datafileExists, siblingFile, isReady, buffer,
                   tasks, indexes, ttlIndexes, datafile, io, nextId, nDirect, meta,
                   started>>

\* ---------------------------------------------------------------------------
\* Specifications
\* ---------------------------------------------------------------------------

\* the datastore under its data operations, index operations, compaction and load
Next ==
    \/ Insert
    \/ Update
    \/ Remove
    \/ CompactDatafile
    \/ LoadDatabase
    \/ ProcessNextIdle
    \/ StartInsert
    \/ StartQuery
    \/ CandidatesStep1
    \/ FinishUpdate
    \/ FinishRemove
    \/ AppendLands
    \/ AppendDone
    \/ StartCompact
    \/ StartLoad
    \/ MkdirDone
    \/ AccessTargetDone
    \/ AccessSiblingDone
    \/ CreateLands
    \/ RenameLands
    \/ IntegrityCallback
    \/ ReadLands
    \/ ReadDone
    \/ WriteTempLands
    \/ WriteRename
    \/ WriteDone
    \/ EnsureIndex
    \/ RemoveIndex
    \/ DirectAppendLands
    \/ DirectAppendDone

Spec == Init /\ [][Next]_vars

\* the executor under tasks that touch no document: find, compaction, load
NextExec ==
    \/ Find
    \/ CompactDatafileExec
    \/ LoadDatabaseExec
    \/ ProcessNextIdle
    \/ StartQuery
    \/ CandidatesStep1
    \/ FinishFind
    \/ StartCompact
    \/ StartLoad
    \/ MkdirDone
    \/ AccessTargetDone
    \/ AccessSiblingDone
    \/ CreateLands
    \/ RenameLands
    \/ IntegrityCallback
    \/ ReadLands
    \/ ReadDone
    \/ WriteTempLands
    \/ WriteRename
    \/ WriteDone

SpecExec == Init /\ [][NextExec]_vars

\* the index operations of a datastore, beside inserts
NextIndex ==
    \/ InsertBeside
    \/ ProcessNextIdle
    \/ StartInsert
    \/ EnsureIndexAny
    \/ RemoveIndexAny
    \/ DirectAppendLands
    \/ DirectAppendDone

SpecIndex == Init /\ [][NextIndex]_vars

\* the executor under tasks that invoke their callback at will
NextCallback ==
    \/ PushTask
    \/ ProcessNextIdle
    \/ StartTask
    \/ InvokeCallback

SpecCallback == InitCallback /\ [][NextCallback]_vars

\* updates with any options, on a loaded datastore
NextUpsert ==
    \/ UpdateAny
    \/ LoadDatabase
    \/ ProcessNextIdle
    \/ StartQuery
    \/ CandidatesStep1
    \/ FinishUpdate
    \/ AppendLands
    \/ AppendDone
    \/ StartUpsertMulti
    \/ StartLoad
    \/ MkdirDone
    \/ AccessTargetDone
    \/ AccessSiblingDone
    \/ CreateLands
    \/ RenameLands
    \/ IntegrityCallback
    \/ ReadLands
    \/ ReadDone
    \/ WriteTempLands
    \/ WriteRename
    \/ WriteDone
    \/ UpsertCall
    \/ StartUpsert
    \/ UpsertDecide
    \/ UpsertCandidates
    \/ UpsertUpdate

SpecUpsert == Init /\ [][NextUpsert]_vars

\* finds and updates on a datastore that holds dated documents, with
\* ensureIndex giving field a a TTL
NextTtl ==
    \/ FindStale
    \/ UpdateStale
    \/ LoadDatabase
    \/ EnsureTtlIndex
    \/ DirectAppendLands
    \/ DirectAppendDone
    \/ ProcessNextIdle
    \/ StartLoad
    \/ MkdirDone
    \/ AccessTargetDone
    \/ ReadLands
    \/ ReadDone
    \/ WriteTempLands
    \/ WriteRename
    \/ WriteDone
    \/ StartQuery
    \/ CandidatesStep1
    \/ ExpireStaleDocs
    \/ ReapCandidates
    \/ ReapRemove
    \/ ReapAppendLands
    \/ ReapAppendDone
    \/ FinishFind
    \/ FinishUpdate
    \/ AppendLands
    \/ AppendDone

SpecTtl == InitTtl /\ [][NextTtl]_vars

\* inserts and finds by {_id: {$in: ids}}
NextIn ==
    \/ InsertIn
    \/ FindIn
    \/ ProcessNextIdle
    \/ StartInsert
    \/ StartQuery
    \/ CandidatesStep1In
    \/ FinishFind

SpecIn == InitIn /\ [][NextIn]_vars

\* the operations of an in-memory datastore, every callback being free to throw
NextThrow ==
    \/ InsertThrow
    \/ UpdateThrow
    \/ RemoveThrow
    \/ FindThrow
    \/ ProcessNextIdle
    \/ InsertCallback
    \/ StartQuery
    \/ CandidatesStep1
    \/ UpdateCallback
    \/ RemoveCallback
    \/ FindCallback

SpecThrow == InitIn /\ [][NextThrow]_vars

\* inserts and finds in memory under every kind of query, with indexes
NextCandidates ==
    \/ InsertForFind
    \/ FindCandidates
    \/ EnsureIndexIn
    \/ ProcessNextIdle
    \/ StartInsert
    \/ StartQuery
    \/ CandidatesStep1
    \/ CandidatesStep1In
    \/ CandidatesStep1Field
    \/ FinishFind

SpecCandidates == InitIn /\ [][NextCandidates]_vars

\* the operations of a ready in-memory datastore under an event loop that
\* runs every callback it holds
NextLive ==
    \/ InsertLive
    \/ UpdateLive
    \/ RemoveLive
    \/ FindLive
    \/ ProcessNextIdle
    \/ StartInsert
    \/ StartQuery
    \/ StartUpsertMulti
    \/ CandidatesStep1
    \/ FinishFind
    \/ FinishUpdate
    \/ FinishRemove

SpecLive == InitIn /\ [][NextLive]_vars /\ WF_vars(LiveSteps)

\* inserts of documents without _id into an in-memory datastore
NextNewId ==
    \/ InsertNoId
    \/ ProcessNextIdle
    \/ StartInsertNoId

SpecNewId == InitIn /\ [][NextNewId]_vars

\* a cursor with a projection executed twice
NextProject == ExecProject

SpecProject == InitProject /\ [][NextProject]_vars

\* Cursor._exec applied to candidates
NextCursor == ExecCursor

SpecCursor == InitCursor /\ [][NextCursor]_vars

\* treatRawData applied to a file
NextRaw == TreatRawData

SpecRaw == InitRaw /\ [][NextRaw]_vars

\* the storage functions the datastore calls (crashSafeWriteFile and
\* ensureDatafileIntegrity), under writes, crashes and recoveries
NextStorage ==
    \/ CrashSafeWriteFile
    \/ FlushDirBefore
    \/ FlushTargetAccess
    \/ FlushTarget
    \/ WriteTemp
    \/ FlushTemp
    \/ RenameTemp
    \/ FlushDirAfter
    \/ Crash
    \/ EnsureDatafileIntegrity
    \/ IntegrityAccessTarget
    \/ IntegrityAccessSibling
    \/ IntegrityWriteFile
    \/ IntegrityRename
    \/ IntegrityDone

SpecStorage == InitStorage /\ [][NextStorage]_vars

\* the storage functions together with ensureFileDoesntExist, which no
\* function of the datastore calls: a caller removes the data file while the
\* other functions are under way or between them
NextFiles ==
    \/ NextStorage
    \/ EnsureFileDoesntExist
    \/ DoesntExistAccess
    \/ DoesntExistUnlink
    \/ DoesntExistDone

SpecFiles == InitStorage /\ [][NextFiles]_vars

TypeOK ==
    /\ isReady \in BOOLEAN
    /\ immediates \in Nat
    /\ currentTask = NoTask \/ currentTask.id \in 1..(nextId - 1)
    /\ \A i \in 1..Len(indexes) : indexes[i].fieldName \in IndexFieldNames
    /\ siblingFile.exists \in BOOLEAN
    /\ proc.pc \in {"idle", "step1", "step2", "dead", "append", "appended", "appendFailed",
                   "mkdir", "accessTarget", "accessSibling", "create", "rename",
                   "ensured", "ensureFailed", "read", "readOk", "readFailed", "write", "renamed"}
    /\ (proc.pc = "idle") = (currentTask = NoTask)

\* ---------------------------------------------------------------------------
\* Observations used by the properties
\* ---------------------------------------------------------------------------

\* the documents an index holds
DocsOf(ix) == SeqToSet(IxGetAll(ix))

\* a set of documents in some order
RECURSIVE SetToSeq(_)
SetToSeq(set) ==
    IF set = {} THEN <<>>
    ELSE LET d == CHOOSE x \in set : TRUE IN <<d>> \o SetToSeq(set \ {d})

\* the documents of the datastore: those of the index on _id, which
\* getAllData returns; those the other indexes hold when the index on _id
\* has been removed
HeldSeq(ixs) ==
    IF HasIndex(ixs, "_id") THEN getAllData(ixs)
    ELSE SetToSeq(UNION {DocsOf(ixs[i]) : i \in 1..Len(ixs)})

HeldDocs(ixs) == SeqToSet(HeldSeq(ixs))

\* the documents each index holds
IndexDocs(ixs) == [i \in 1..Len(ixs) |-> DocsOf(ixs[i])]

\* the keys a document has under an index, by the value of its field
KeysUnder(ix, doc) ==
    IF ix.fieldName = "_id" THEN {doc._id}
    ELSE LET fieldValue == getDotValue(doc, ix.fieldName)
         IN IF fieldValue.arr THEN SeqToSet(fieldValue.v)
            ELSE IF fieldValue = Undefined
                 THEN (IF ix.sparse THEN {} ELSE {UndefKey})
                 ELSE {fieldValue.v[1]}

\* the pairs <<key, document>> of an index
IndexContent(ix) ==
    IF ix.kind = "ustr" THEN {<<ix.map[i]._id, ix.map[i]>> : i \in 1..Len(ix.map)}
    ELSE UNION {{<<k, d>> : d \in SeqToSet(ix.tree[k])} : k \in DOMAIN ix.tree}

\* the non-primary index definitions of the datastore
IndexDefs(ixs) ==
    {<<ixs[i].fieldName, ixs[i].unique, ixs[i].sparse>> :
        i \in {j \in 1..Len(ixs) : ixs[j].fieldName # "_id"}}

\* the index definitions treatRawData returns
FileIndexDefs(defs) ==
    {<<defs[i].fieldName, defs[i].unique, defs[i].sparse>> : i \in 1..Len(defs)}

\* position of a started task in the order of the starts
StartPos(id) == CHOOSE p \in 1..Len(started) : started[p] = id

Started == SeqToSet(started)

\* tasks pushed when the executor was ready; tasks put in the buffer; tasks
\* forced into the run queue of a buffering executor
PushedReady == {i \in 1..Len(meta) : meta[i].ready}

Buffered == {i \in 1..Len(meta) : ~meta[i].ready /\ ~meta[i].force}

ForcedWhileBuffering == {i \in 1..Len(meta) : ~meta[i].ready /\ meta[i].force}

\* no task waits or runs, no append of an index operation is in flight
Idle == currentTask = NoTask /\ tasks = <<>> /\ io = <<>>

\* an insert, update or remove just reported an error
DataOpFailed == hist.fn \in {"insert", "update", "remove"} /\ hist.err # "none"

\* ---------------------------------------------------------------------------
\* Properties
\* ---------------------------------------------------------------------------

\* C1: whenever an insert, update or remove reports an error to its callback,
\* getAllData() holds exactly the documents it held before the call.
C1_FailedOpKeepsDocuments ==
    DataOpFailed => HeldDocs(indexes) = HeldDocs(hist.before)

\* C2: whenever the executor of a loaded persistent datastore is idle,
\* treatRawData of the data file yields exactly the documents held in memory
\* and exactly the non-primary index definitions held in memory.
C2_FileReplaysToMemory ==
    (~inMemoryOnly /\ isReady /\ Idle) =>
        LET treated == treatRawData(datafile)
        IN /\ SeqToSet(treated.data) = HeldDocs(indexes)
           /\ FileIndexDefs(treated.indexes) = IndexDefs(indexes)

\* C3: the function of a task is invoked only when every task started before
\* it has invoked its completion callback: at most one task is executing.
C3_OneTaskAtATime ==
    /\ \A p \in 1..(Len(started) - 1) : started[p] \in finished
    /\ Cardinality(Started \ finished) <= 1

C3_Witness ==
    /\ Len(started) >= 2
    /\ currentTask # NoTask
    /\ tasks # <<>>
    /\ immediates = 0

\* C4: tasks pushed to a ready executor start in the order of their pushes,
\* and such a task starts only after every task pushed before it has invoked
\* its completion callback.
C4_ReadyTasksInPushOrder ==
    /\ \A j \in PushedReady \cap Started : \A i \in 1..(j - 1) : i \in finished
    /\ \A i \in PushedReady \cap Started : \A j \in PushedReady \cap Started :
           i < j => StartPos(i) < StartPos(j)

C4_Witness ==
    /\ inMemoryOnly
    /\ Len(started) = 3
    /\ started[3] \notin finished
    /\ tasks # <<>>

\* C5: a task pushed without forceQueuing to a buffering executor is not
\* started while the executor buffers; after processBuffer the buffered tasks
\* start in the order of their pushes, behind the tasks forced into the run
\* queue before, and ahead of every task pushed afterwards.
C5_BufferedTasksInOrder ==
    /\ ~isReady => Buffered \cap Started = {}
    /\ \A i \in Buffered : \A j \in Buffered \cap Started :
           i < j => (i \in Started /\ StartPos(i) < StartPos(j))
    /\ \A f \in ForcedWhileBuffering : \A b \in Buffered \cap Started :
           f \in Started /\ StartPos(f) < StartPos(b)
    /\ \A b \in Buffered : \A j \in PushedReady \cap Started :
           b \in Started /\ StartPos(b) < StartPos(j)

C5_Witness ==
    /\ Cardinality(ForcedWhileBuffering) = 2
    /\ \E b \in Buffered \cap Started : \E f \in ForcedWhileBuffering : b < f
    /\ Cardinality(Buffered \cap Started) >= 2
    /\ PushedReady \cap Started # {}

\* C6: when an insert of one document or of a batch is rejected by an index,
\* every index holds exactly the documents it held before and no record is
\* appended to the data file.
C6_FailedInsertRolledBack ==
    [][(hist'.fn = "insert" /\ hist'.err = "uniqueViolated") =>
          /\ IndexDocs(indexes') = IndexDocs(indexes)
          /\ datafile' = datafile
          /\ proc'.pc # "append"]_vars

\* a batch whose first document alone is accepted and whose second document is
\* rejected by an index other than _id
C6_Witness ==
    /\ hist.fn = "insert"
    /\ hist.err = "uniqueViolated"
    /\ Len(hist.news) = 2
    /\ Len(indexes) >= 2
    /\ hist.news[1]._id # hist.news[2]._id
    /\ \A i \in 1..Len(indexes) : \A d \in DocsOf(indexes[i]) : d._id # hist.news[2]._id
    /\ addToIndexes(hist.before, hist.news[1]).ok

\* C7: when an update is rejected by an index, every index has the keys it had
\* before the call and each key points to the unmodified document.
C7_RejectedUpdateReverted ==
    (hist.fn = "update" /\ hist.err = "uniqueViolated") =>
        /\ Len(indexes) = Len(hist.before)
        /\ \A i \in 1..Len(indexes) :
               IndexContent(indexes[i]) = IndexContent(hist.before[i])

\* a multi update rejected by the third index, after _id and b accepted it
C7_Witness ==
    /\ hist.fn = "update"
    /\ hist.err = "uniqueViolated"
    /\ Len(hist.news) = 2
    /\ Len(indexes) = 3
    /\ indexes[2].fieldName = "b"
    /\ DocsOf(indexes[2]) # {}

\* the documents an insert or update leaves when it succeeds
ResultingDocs(before, olds, news) ==
    SelectSeq(HeldSeq(before), LAMBDA d : d \notin SeqToSet(olds)) \o news

\* two of these documents share a key under a unique index
WouldViolate(before, olds, news) ==
    LET docs == ResultingDocs(before, olds, news)
    IN \E i \in 1..Len(before) :
          /\ before[i].unique
          /\ \E p \in 1..Len(docs) : \E q \in (p + 1)..Len(docs) :
                 KeysUnder(before[i], docs[p]) \cap KeysUnder(before[i], docs[q]) # {}

\* C8: no unique index holds two distinct documents under the same key; an
\* insert or update that would create such a pair fails with errorType
\* 'uniqueViolated'.
C8_UniqueKeys ==
    /\ \A i \in 1..Len(indexes) :
           indexes[i].unique =>
               /\ \A e1 \in IndexContent(indexes[i]) : \A e2 \in IndexContent(indexes[i]) :
                      e1[1] = e2[1] => e1[2] = e2[2]
               /\ \A d1 \in DocsOf(indexes[i]) : \A d2 \in DocsOf(indexes[i]) :
                      d1 # d2 => KeysUnder(indexes[i], d1) \cap KeysUnder(indexes[i], d2) = {}
    /\ (/\ hist.fn \in {"insert", "update"}
        /\ hist.err \in {"none", "storage", "uniqueViolated"}
        /\ WouldViolate(hist.before, hist.olds, hist.news))
           => hist.err = "uniqueViolated"

\* an update rejected by a unique index on a that holds a document
C8_Witness ==
    /\ hist.fn = "update"
    /\ hist.err = "uniqueViolated"
    /\ \E i \in 1..Len(indexes) :
           indexes[i].fieldName # "_id" /\ indexes[i].unique /\ DocsOf(indexes[i]) # {}

\* an insert, update, remove, ensureIndex or loadDatabase just succeeded
MutationSucceeded ==
    /\ hist.fn \in {"insert", "update", "remove", "ensureIndex", "load"}
    /\ hist.err = "none"

\* C9: after every successful insert, update, remove, ensureIndex and
\* loadDatabase every index contains exactly the documents of the _id index,
\* those left aside that have no key under the index: the documents whose
\* field is an empty array and, for a sparse index, those whose field is
\* undefined.
C9_IndexesHoldKeyedDocuments ==
    MutationSucceeded =>
        \A i \in 1..Len(indexes) :
            DocsOf(indexes[i]) =
                {d \in HeldDocs(indexes) : KeysUnder(indexes[i], d) # {}}

\* the ttlIndexes of a datastore just constructed, which loadDatabase leaves
\* as they are
FreshTtlIndexes == {}

\* C10: after persistCachedDatabase completes successfully, loading the file
\* into a fresh datastore yields the same documents, the same non-primary
\* indexes with the same unique and sparse options, and the same TTL mapping.
C10_PersistThenLoadRestoresState ==
    (~inMemoryOnly /\ hist.fn \in {"compact", "load"} /\ hist.err = "none") =>
        LET loaded == loadFromRawData(<<NewUniqueStringIndex>>, datafile)
        IN /\ loaded.ok
           /\ HeldDocs(loaded.ixs) = HeldDocs(indexes)
           /\ IndexDefs(loaded.ixs) = IndexDefs(indexes)
           /\ FreshTtlIndexes = ttlIndexes

\* C11: when the process crashed during crashSafeWriteFile and
\* ensureDatafileIntegrity has then run without error, the data file holds
\* the complete content it had when the write began or the complete data
\* passed to the write.
C11_CrashLeavesOldOrNew ==
    (integrity.pc = "returned" /\ writer.crashed /\ integrity.err = "none")
        => files.target.content \in {writer.prev.content, writer.data}

\* C12: an ensureDatafileIntegrity that finds the data file calls back at once
\* without error and changes no file, a sibling or none; one that finds the
\* data file missing and the sibling there renames the sibling into place;
\* one that finds both missing writes an empty data file; it changes the
\* files in no other step; and whenever it reports no error the data file
\* exists.
C12_IntegrityCases ==
    /\ [][(integrity.pc = "accessTarget" /\ integrity'.pc \notin {"accessTarget", "idle"}
                /\ files.target.exists)
            => (integrity'.pc = "returned" /\ integrity'.err = "none")]_vars
    /\ [][(integrity.pc = "accessSibling" /\ integrity'.pc \notin {"accessSibling", "idle"})
            => integrity'.pc = IF files.sibling.exists THEN "rename" ELSE "writeFile"]_vars
    /\ [][(integrity.pc = "rename" /\ integrity'.pc = "callback" /\ integrity'.err = "none")
            => (/\ files.sibling.exists
                /\ files' = [target |-> files.sibling, sibling |-> Missing])]_vars
    /\ [][(integrity.pc = "writeFile" /\ integrity'.pc = "callback"
                /\ integrity'.err = "none")
            => files' = [files EXCEPT !.target = File(<<>>)]]_vars
    /\ [][(integrity' # integrity /\ files' # files)
            => (/\ integrity.pc \in {"rename", "writeFile"}
                /\ integrity.found # "target")]_vars
    /\ []((integrity.pc \in {"callback", "returned"} /\ integrity.err = "none")
            => files.target.exists)

\* C12 is exercised: a run found the data file together with a sibling
\* holding other content, and has called back
C12_Witness ==
    /\ integrity.pc = "returned"
    /\ integrity.found = "target"
    /\ files.target.exists
    /\ files.sibling.exists
    /\ files.sibling.content # files.target.content
    /\ writer.pc \in {"idle", "crashed"}

\* C13: a loadDatabase that reports an error leaves the buffer, the run queue
\* and the readiness of the executor as they were; the executor becomes ready
\* only in the step in which a loadDatabase reports success; and a task that
\* went to the buffer is started only by a ready executor.
C13_FailedLoadKeepsBuffer ==
    /\ [][(hist'.fn = "load" /\ hist'.err # "none")
            => (buffer' = buffer /\ isReady' = isReady /\ tasks' = tasks)]_vars
    /\ [][(isReady' # isReady) => (hist'.fn = "load" /\ hist'.err = "none")]_vars
    /\ [](Buffered \cap Started # {} => isReady)

\* C13 is exercised: a load of a corrupt file, or one that met a unique
\* violation or a storage error, reported its error while tasks were buffered
C13_Witness ==
    /\ hist.fn = "load"
    /\ hist.err \in {"corrupt", "uniqueViolated", "storage"}
    /\ buffer # <<>>
    /\ ~isReady

\* C14: in every reachable state the index map of the datastore holds the
\* unique primary index on _id.
C14_PrimaryIndexPresent ==
    \E i \in 1..Len(indexes) :
        /\ indexes[i].fieldName = "_id"
        /\ indexes[i].kind = "ustr"
        /\ indexes[i].unique

\* C19: a step in which ensureIndex reports a unique violation leaves the
\* index map, the TTL mapping and the data file (with the appends under way)
\* as they were.
C19_FailedEnsureIndexChangesNothing ==
    [][(hist'.fn = "ensureIndex" /\ hist'.err = "uniqueViolated")
         => (indexes' = indexes /\ ttlIndexes' = ttlIndexes /\ datafile' = datafile
             /\ io' = io)]_vars

\* C20: a step in which ensureIndex is called on a field that is indexed
\* already reports no error and leaves the index map with the documents and
\* options of every index, the TTL mapping and the data file (with the appends
\* under way) as they were.
C20_SecondEnsureIndexChangesNothing ==
    [][(hist'.fn = "ensureIndex" /\ nDirect' # nDirect
            /\ HasIndex(indexes, hist'.options.fieldName))
         => (hist'.err = "none" /\ indexes' = indexes /\ ttlIndexes' = ttlIndexes
             /\ datafile' = datafile /\ io' = io)]_vars

\* C20 is exercised: ensureIndex was just called with a TTL and another unique
\* option on a field whose index holds documents
C20_Witness ==
    /\ hist.fn = "ensureIndex"
    /\ hist.err = "none"
    /\ HasIndex(hist.before, hist.options.fieldName)
    /\ LET ix == hist.before[IndexPos(hist.before, hist.options.fieldName)]
       IN /\ ix.unique # hist.options.unique
          /\ hist.options.expire # NoExpire
          /\ DocsOf(ix) # {}
    /\ indexes = hist.before

\* C15: a step in which the completion callback of a task is invoked after an
\* earlier invocation raises 'Callback was already called.' and leaves the
\* current task and the run queue of the executor as they were.
C15_SecondCallbackRaises ==
    [][(hist'.fn = "callback" /\ hist'.id \in finished)
         => (hist'.err = "alreadyCalled" /\ currentTask' = currentTask
             /\ tasks' = tasks)]_vars

\* C16: an update whose _updateOrInsert has rejected the options upsert with
\* multi has invoked its completion callback, so that the executor is free
\* for the next task, and no index has changed.
C16_UpsertMultiRejected ==
    proc.pc = "thrown"
        => (currentTask.id \in finished /\ currentTask = lastFinishedTask)

\* a document that field a makes older than a TTL of the datastore allows
Outdated(doc) ==
    \E e \in ttlIndexes :
        e[1] = "a" /\ "date" \in DOMAIN doc.a /\ doc.a.v[1] < Now - e[2]

\* the documents the step of an update takes out of the indexes to put
\* their modified versions in
ModifiedByStep ==
    IF currentTask.fn = "update" /\ proc.pc \in {"step2", "valid"}
    THEN IF proc'.pc = "append" THEN proc'.olds ELSE hist'.olds
    ELSE <<>>

\* the documents the step of a find passes to the callback of the find
ReturnedByStep ==
    IF currentTask.fn = "find" /\ hist'.fn = "find" THEN hist'.found ELSE <<>>

\* C17: a find never returns and an update never modifies a document whose
\* TTL field holds a date older than now minus expireAfterSeconds; when the
\* candidate set is returned every such candidate is out of every index and
\* its tombstone is in the datafile; a document whose TTL field is absent or
\* not a date is never taken for expired
C17_ExpiredRemovedBeforeReturn ==
    /\ [][\A i \in 1..Len(ReturnedByStep) : ~Outdated(ReturnedByStep[i])]_vars
    /\ [][\A i \in 1..Len(ModifiedByStep) : ~Outdated(ModifiedByStep[i])]_vars
    /\ [](proc.pc \in {"reap", "reapStep2", "reapAppend", "reapAppended", "reapAppendFailed",
                      "valid"} =>
            \A i \in 1..Len(proc.news) : isDate(proc.news[i].a))
    /\ [](proc.pc = "valid" =>
            \A i \in 1..Len(proc.news) :
                /\ \A j \in 1..Len(indexes) : proc.news[i] \notin DocsOf(indexes[j])
                /\ DeletedRec(proc.news[i]._id) \in SeqToSet(datafile))

\* C18: find({_id: {$in: ids}}) returns exactly the stored documents whose
\* _id is an element of ids, each once, whatever the order of ids
C18_FindByIdIn ==
    [][(currentTask.fn = "find" /\ proc.query.qt = "idin" /\ hist'.fn = "find") =>
          LET wanted == {d \in HeldDocs(indexes) :
                            \E i \in 1..Len(proc.query.ids) : proc.query.ids[i] = d._id}
          IN /\ SeqToSet(hist'.found) = wanted
             /\ Len(hist'.found) = Cardinality(wanted)]_vars

\* the _ids of the stored documents
StoredIds == {d._id : d \in HeldDocs(indexes)}

\* the operation a step belongs to: a direct index call or its append, the
\* task the step starts, or the task that is running
StepOf ==
    IF nDirect' # nDirect \/ io' # io THEN "direct"
    ELSE IF started' # started THEN Head(tasks).fn
    ELSE currentTask.fn

\* C21: an update never changes the _id of a document, a rejected change of
\* _id leaves the documents as they were, and the set of stored _ids changes
\* only in a step of an insert, of a remove or of a loadDatabase, which puts
\* the documents of the datafile in the place of the stored ones (upsert and
\* TTL expiry are no steps of Spec).
C21_IdsChangeOnlyByInsertRemoveLoad ==
    /\ [](hist.fn = "update" =>
            \A i \in 1..Len(hist.news) : hist.news[i]._id = hist.olds[i]._id)
    /\ []((hist.fn = "update" /\ hist.err = "changeId") => indexes = hist.before)
    /\ [][StoredIds' # StoredIds => StepOf \in {"insert", "remove", "load"}]_vars

\* the stored documents
StoredDocs == HeldDocs(indexes)

\* the callback of the Cursor of an upsert runs in this step
UpsertDecides == currentTask.fn = "upsert" /\ proc.pc = "step2" /\ proc' # proc

\* a stored document matches the query of the running task, and matchQuery
\* throws for none
QueryMatches ==
    /\ \E d \in StoredDocs : matchQuery(d, proc.query) = "true"
    /\ \A d \in StoredDocs : matchQuery(d, proc.query) # "throws"

QueryMatchesNone == \A d \in StoredDocs : matchQuery(d, proc.query) = "false"

\* C22: an update with upsert inserts exactly one new document if and only
\* if no stored document matches the query, otherwise it goes on as a plain
\* update and inserts nothing; when it inserts, the callback gets
\* numAffected 1, the inserted document and upsert true
C22_UpsertInsertsIffNoMatch ==
    /\ [][(UpsertDecides /\ QueryMatches) =>
            (proc'.pc = "ustep1" /\ indexes' = indexes)]_vars
    /\ [][(UpsertDecides /\ QueryMatchesNone /\ hist'.err = "none") =>
            (StoredDocs \subseteq StoredDocs' /\ Cardinality(StoredDocs' \ StoredDocs) = 1)]_vars
    /\ [][(UpsertDecides /\ StoredDocs' # StoredDocs) => QueryMatchesNone]_vars
    /\ [][(currentTask.fn = "upsert" /\ proc.pc # "step2") =>
            {d._id : d \in StoredDocs'} = {d._id : d \in StoredDocs}]_vars
    /\ []((hist.fn = "upsert" /\ hist.err = "none" /\ hist.olds = <<>> /\ hist.news # <<>>) =>
            /\ hist.numAffected = 1
            /\ hist.upsert
            /\ Len(hist.news) = 1
            /\ hist.news[1] \in StoredDocs
            /\ hist.news[1] \notin HeldDocs(hist.before))
    /\ []((hist.fn = "upsert" /\ hist.olds # <<>>) => ~hist.upsert)

\* an update or a remove reports success in this step
ReportsChange ==
    /\ currentTask.fn \in {"update", "remove"}
    /\ hist'.fn = currentTask.fn
    /\ hist'.id = currentTask.id
    /\ hist'.err = "none"

\* the appendFile of an update or a remove writes its records in this step
AppendsChange ==
    /\ currentTask.fn \in {"update", "remove"}
    /\ proc.pc = "append"
    /\ proc'.pc = "appended"

\* C23: with multi false an update or a remove changes at most one
\* document; the count given to the callback is the number of documents
\* replaced or removed in the indexes and, for a persistent datastore, the
\* number of records its appendFile has written to the datafile
C23_CountIsWhatChanged ==
    /\ []((hist.fn \in {"update", "remove"} /\ hist.err = "none") =>
            /\ ~hist.multi => hist.numAffected <= 1
            /\ hist.numAffected = Len(hist.olds)
            /\ \A i, j \in 1..Len(hist.olds) : hist.olds[i] = hist.olds[j] => i = j
            /\ SeqToSet(hist.olds) \subseteq HeldDocs(hist.before)
            /\ StoredDocs = (HeldDocs(hist.before) \ SeqToSet(hist.olds))
                                \cup SeqToSet(hist.news)
            /\ hist.fn = "update" => Len(hist.news) = Len(hist.olds)
            /\ hist.fn = "remove" => hist.news = <<>>)
    /\ [][ReportsChange =>
            \/ inMemoryOnly
            \/ hist'.numAffected = 0
            \/ proc.pc = "appended" /\ hist'.numAffected = Len(proc.toPersist)]_vars
    /\ [][AppendsChange =>
            datafile' = datafile \o proc.toPersist]_vars

\* the task that reports in a step: the current one, or the one _processNext
\* takes from the queue when it reports before its function returns
ReportingTask == IF currentTask # NoTask THEN currentTask ELSE Head(tasks)

\* C24: a step in which the completion callback of a task throws leaves the
\* exception uncaught and has invoked the callback once; the task is finished
\* by then: no task is current, the task is the last finished one and a
\* _processNext is scheduled, so that a task waiting in the queue can start.
C24_ThrowingCallback ==
    /\ [][hist'.threw
            => (/\ hist'.uncaught
                /\ hist'.calls = 1
                /\ ReportingTask.id = hist'.id
                /\ lastFinishedTask' = ReportingTask
                /\ currentTask' = NoTask)]_vars
    /\ [](hist.threw => (immediates > 0 /\ (tasks # <<>> => CanStart)))

\* C24 is exercised: the callback of a find just threw on its result while
\* another task waits in the queue
C24_Witness == hist.threw /\ hist.fn = "find" /\ hist.err = "none" /\ tasks # <<>>

\* C25: the step in which a compaction or a load reports to its callback
\* emits 'compaction.done' once if the datastore has a file and the
\* operation succeeded, and not at all otherwise; when it emits, the rename
\* has put what persistCachedDatabase handed to crashSafeWriteFile in the
\* place of the data file.  No other step emits the event.
C25_CompactionDoneOnce ==
    /\ [](hist.emits = (IF /\ hist.fn \in {"compact", "load"}
                            /\ hist.err = "none"
                            /\ ~inMemoryOnly
                         THEN 1 ELSE 0))
    /\ [][hist'.emits > 0 => proc.pc = "renamed"]_vars
    /\ [][(proc'.pc = "renamed" /\ proc.pc # "renamed")
            => (proc.pc = "write" /\ datafile' = proc.toPersist)]_vars

\* C25 is exercised: a compaction of a datastore with a file just emitted
\* the event after it rewrote a file that held other lines
C25_Witness ==
    /\ hist.fn = "compact"
    /\ hist.emits = 1
    /\ \E f \in InitialFiles : f # datafile

\* the documents of index ix whose indexed field is undefined
UndefinedIn(ix) == {d \in DocsOf(ix) : getDotValue(d, ix.fieldName) = Undefined}

\* the insert that just reported stored documents of new, distinct _ids whose
\* field a is undefined, while position i of the indexes held a unique index
\* on a
InsertedUndefined(i) ==
    /\ hist.fn = "insert"
    /\ hist.news # <<>>
    /\ \A k \in 1..Len(hist.news) : hist.news[k].a = Undefined
    /\ \A k \in 1..Len(hist.news) : \A j \in 1..Len(hist.before) :
           \A d \in DocsOf(hist.before[j]) : d._id # hist.news[k]._id
    /\ \A k \in 1..Len(hist.news) : \A l \in 1..Len(hist.news) :
           hist.news[k]._id = hist.news[l]._id => k = l
    /\ i \in 1..Len(hist.before)
    /\ hist.before[i].fieldName = "a"
    /\ hist.before[i].unique

\* C26: a sparse unique index holds no document whose indexed field is
\* undefined and a non-sparse unique index holds at most one.  An insert of
\* new documents without the field is not rejected as uniqueViolated under a
\* sparse unique index, whatever their number; under a non-sparse unique
\* index it is rejected as uniqueViolated as soon as the index and the insert
\* together have two such documents.
C26_UndefinedUnderUniqueIndex ==
    /\ \A i \in 1..Len(indexes) :
           (indexes[i].unique /\ indexes[i].fieldName # "_id") =>
               IF indexes[i].sparse THEN UndefinedIn(indexes[i]) = {}
               ELSE Cardinality(UndefinedIn(indexes[i])) <= 1
    /\ \A i \in 1..Len(hist.before) :
           InsertedUndefined(i) =>
               IF hist.before[i].sparse THEN hist.err # "uniqueViolated"
               ELSE (Cardinality(UndefinedIn(hist.before[i])) + Len(hist.news) >= 2)
                        => hist.err = "uniqueViolated"

\* C26 is exercised: a non-sparse unique index on a that held one document
\* without the field just rejected a second one
C26_Witness ==
    \E i \in 1..Len(hist.before) :
        /\ InsertedUndefined(i)
        /\ ~hist.before[i].sparse
        /\ Cardinality(UndefinedIn(hist.before[i])) = 1
        /\ Len(hist.news) = 1
        /\ hist.err = "uniqueViolated"

\* C27: a step in which the function of a task is invoked is the run of a
\* _processNext that setImmediate had scheduled, with no task current: it is
\* no push (no task is added), no processBuffer (the buffer and the ready
\* flag stay) and no completion callback of another task (the one task it
\* may finish is the task it starts).
C27_TasksStartOnLaterTick ==
    [][started' # started
         => (/\ immediates > 0
             /\ currentTask = NoTask
             /\ Len(started') = Len(started) + 1
             /\ nextId' = nextId
             /\ buffer' = buffer
             /\ isReady' = isReady
             /\ finished' \subseteq finished \cup {started'[Len(started')]})]_vars

\* C27 is exercised: a task that waited in the buffer runs, after the load
\* that called processBuffer has finished
C27_Witness ==
    /\ currentTask # NoTask
    /\ ~meta[currentTask.id].ready
    /\ ~meta[currentTask.id].force
    /\ \E id \in finished : meta[id].force

\* the stored documents a find has to be given as candidates: those that
\* match its query and have not expired
MatchingDocs ==
    {d \in HeldDocs(indexes) :
        matchQuery(d, proc.query) = "true" /\ ~isStale(d, ttlIndexes, Now)}

\* the find that is running has got its candidates from step 1
HasCandidates == currentTask.fn = "find" /\ proc.pc = "step2"

\* C28: the candidates getCandidates hands on contain every stored document
\* that matches the query and has not expired, whichever branch of step 1
\* selected them.
C28_CandidatesComplete ==
    HasCandidates =>
        MatchingDocs \subseteq SeqToSet(validDocs(proc.candidates, ttlIndexes, Now))

\* C29: a step that changes the indexes is a step of an executor task, the
\* step that starts it or a later one while it is current; no call made
\* beside the executor changes them.
C29_IndexesChangeInExecutorSlot ==
    [][indexes' # indexes
         => (/\ StepOf # "direct"
             /\ (started' # started \/ currentTask # NoTask))]_vars

\* expireAfterSeconds of the index on fieldName under the TTL mapping ttl
ExpireOf(ttl, fieldName) ==
    IF \E e \in ttl : e[1] = fieldName
    THEN (CHOOSE e \in ttl : e[1] = fieldName)[2]
    ELSE NoExpire

\* the $$indexCreated lines of the indexes ixs with all their options
OptionRecs(ixs, ttl) ==
    {IndexCreatedRec(ixs[i].fieldName, ixs[i].unique, ixs[i].sparse,
                     ExpireOf(ttl, ixs[i].fieldName)) :
        i \in {j \in 1..Len(ixs) : ixs[j].fieldName # "_id"}}

\* persistCachedDatabase hands its lines to crashSafeWriteFile in this step
BuildsPayload == proc.pc # "write" /\ proc'.pc = "write"

\* C30: the lines persistCachedDatabase writes are the live documents, one
\* line each, followed by one $$indexCreated line for each index but _id
\* with its fieldName, unique, sparse and expireAfterSeconds; no other line
\* is among them.
C30_CompactedFileContent ==
    [][BuildsPayload =>
          LET lines == proc'.toPersist
              docLines == SelectSeq(lines, LAMBDA rec : rec.t = "doc")
              indexLines == SelectSeq(lines, LAMBDA rec : rec.t = "indexCreated")
          IN /\ lines = docLines \o indexLines
             /\ docLines = DocRecs(getAllData(indexes'))
             /\ SeqToSet(indexLines) = OptionRecs(indexes', ttlIndexes')
             /\ Len(indexLines) = Cardinality(OptionRecs(indexes', ttlIndexes'))]_vars

\* C31: when filling the indexes from the data file fails, the load reports
\* the error with every index empty, the _id index included; the step
\* starts no rewrite of the data file, leaves the file as it is and emits no
\* 'compaction.done'.
C31_FailedFillEmptiesIndexes ==
    /\ []((hist.fn = "load" /\ hist.err = "uniqueViolated") =>
            \A i \in 1..Len(indexes) : DocsOf(indexes[i]) = {})
    /\ [][(hist'.fn = "load" /\ hist'.err = "uniqueViolated") =>
            (/\ proc.pc = "readOk"
             /\ proc'.pc = "idle"
             /\ datafile' = datafile
             /\ hist'.emits = 0)]_vars

\* C31 is exercised: a load just failed on a unique index of a file that
\* holds documents
C31_Witness ==
    /\ hist.fn = "load"
    /\ hist.err = "uniqueViolated"
    /\ Len(indexes) >= 2
    /\ treatRawData(datafile).data # <<>>

\* C32: a step of crashSafeWriteFile is followed by the step next in order
\* and only when it has succeeded; the rename puts the data in place with the
\* sibling written in full and no error before, and no other step that moves
\* on to the next replaces the data file; the callback
\* is invoked once, in the step that fails or after the last step, and with
\* the error of that step.
C32_WriteStepsInOrder ==
    /\ [][(writer.pc \in WriteSteps /\ writer'.pc \in WriteSteps /\ writer'.pc # writer.pc)
            => writer'.pc = AfterStep(writer.pc)]_vars
    /\ [](writer.pc \in WriteSteps => writer.err = "none")
    /\ [][(writer.pc = "rename" /\ writer'.pc = "flushDirAfter")
            => (/\ files'.target = File(writer.data)
                /\ files.sibling = File(writer.data))]_vars
    /\ [][(writer.pc \in WriteSteps /\ writer'.pc \in WriteSteps /\ writer'.pc # writer.pc
                /\ files'.target # files.target)
            => writer.pc = "rename"]_vars
    /\ [][writer'.callbacks # writer.callbacks
            => (/\ writer'.callbacks = writer.callbacks + 1
                /\ writer.pc \in WriteSteps
                /\ writer'.pc = "returned"
                /\ (writer'.err = "none" => writer.pc = "flushDirAfter"))]_vars
    /\ [][(writer.pc \in WriteSteps /\ writer'.pc = "returned")
            => writer'.callbacks = writer.callbacks + 1]_vars

\* C32 is exercised: the write or the flush of the sibling failed, the
\* callback has the error and the data file is the one the call found
C32_Witness ==
    /\ writer.pc = "returned"
    /\ writer.err = "storage"
    /\ files.sibling.exists
    /\ files.sibling.content = writer.data
    /\ writer.data # <<>>
    /\ files.target = writer.prev

\* line i of lines is the last parseable record with this _id
LastOfId(lines, i, id) ==
    /\ lines[i].t \in {"doc", "deleted"}
    /\ lines[i].doc._id = id
    /\ \A j \in (i + 1)..Len(lines) :
           ~(lines[j].t \in {"doc", "deleted"} /\ lines[j].doc._id = id)

\* line i of lines is the last $$indexCreated or $$indexRemoved record of
\* this field
LastOfField(lines, i, fieldName) ==
    /\ lines[i].t \in {"indexCreated", "indexRemoved"}
    /\ lines[i].fieldName = fieldName
    /\ \A j \in (i + 1)..Len(lines) :
           ~(lines[j].t \in {"indexCreated", "indexRemoved"}
             /\ lines[j].fieldName = fieldName)

\* C33: what treatRawData returns has a document for an _id exactly when the
\* last parseable record with that _id is a document, and then this document
\* once; it has an index definition for a field exactly when the last
\* $$indexCreated or $$indexRemoved record of the field is a $$indexCreated,
\* and then this definition once.
C33_LastRecordWins ==
    proc.pc = "treated" =>
        LET data == proc.candidates
            defs == proc.toPersist
        IN /\ \A id \in RawIds :
                  LET found == {k \in 1..Len(data) : data[k]._id = id}
                      live == {i \in 1..Len(datafile) :
                                  LastOfId(datafile, i, id) /\ datafile[i].t = "doc"}
                  IN /\ (found # {}) <=> (live # {})
                     /\ Cardinality(found) <= 1
                     /\ \A k \in found : \A i \in live : data[k] = datafile[i].doc
           /\ \A k \in 1..Len(data) : data[k]._id \in RawIds
           /\ \A fieldName \in Fields :
                  LET found == {k \in 1..Len(defs) : defs[k].fieldName = fieldName}
                      live == {i \in 1..Len(datafile) :
                                  /\ LastOfField(datafile, i, fieldName)
                                  /\ datafile[i].t = "indexCreated"}
                  IN /\ (found # {}) <=> (live # {})
                     /\ Cardinality(found) <= 1
                     /\ \A k \in found : \A i \in live : defs[k] = datafile[i]
           /\ \A k \in 1..Len(defs) : defs[k].fieldName \in Fields

\* the candidates that match the query, in candidate order
CursorMatching == SelectSeq(proc.candidates, LAMBDA d : matchQuery(d, proc.query) = "true")

\* the number of documents a cursor is to return for m matches
CursorCount(m, skip, limit) ==
    LET rest == IF m - skip > 0 THEN m - skip ELSE 0
    IN IF limit = 0 THEN rest ELSE IF limit < rest THEN limit ELSE rest

\* C34: with skip s, limit l and m matching candidates, a cursor returns
\* max(0, m - s) documents when l = 0 and min(l, max(0, m - s)) when l > 0;
\* without sort they are the matching candidates in candidate order after
\* the first s; the cursor with the sort taken away or added returns the
\* same number.
C34_SkipAndLimit ==
    proc.pc = "executed" =>
        LET s == currentTask.skip
            l == currentTask.limit
            n == CursorCount(Len(CursorMatching), s, l)
        IN /\ Len(hist.found) = n
           /\ currentTask.sort = 0 => hist.found = SubSeq(CursorMatching, s + 1, s + n)
           /\ \A sort \in {0, 1, -1} :
                  Len(execCursor(proc.candidates, proc.query,
                                 [currentTask EXCEPT !.sort = sort])) = n

\* C34 is exercised: a sorted cursor without limit has skipped one of three
\* matching documents and put the other two in another order than the
\* candidates
C34_Witness ==
    /\ proc.pc = "executed"
    /\ currentTask.sort = -1
    /\ currentTask.skip = 1
    /\ currentTask.limit = 0
    /\ Len(CursorMatching) = 3
    /\ Len(hist.found) = 2
    /\ hist.found # SubSeq(CursorMatching, 2, 3)

\* C35: an insert of documents that carry no _id does not fail with
\* uniqueViolated, and every generated _id differs from the stored _ids and
\* from the _ids generated for the other documents of the batch.
C35_GeneratedIdsAreNew ==
    [](hist.fn = "insert" =>
          /\ hist.err # "uniqueViolated"
          /\ \A i \in 1..Len(hist.news) :
                 /\ USI_getMatching(hist.before[IndexPos(hist.before, "_id")],
                                 hist.news[i]._id) = <<>>
                 /\ \A j \in 1..Len(hist.news) :
                        i # j => hist.news[i]._id # hist.news[j]._id)

\* the started tasks whose callback has not been invoked
RunningTasks == {id \in SeqToSet(started) : id \notin finished}

\* C36: a callback invoked again by a finished task, while a later task is
\* the current one, leaves the current task in place, and no two tasks are
\* ever started without the callback of the first having been invoked.
C36_LateCallbackSparesRunningTask ==
    /\ [][(/\ hist'.fn = "callback"
           /\ hist'.id \in finished
           /\ currentTask # NoTask
           /\ currentTask.id # hist'.id) => currentTask' = currentTask]_vars
    /\ [](Cardinality(RunningTasks) <= 1)

\* C37: on a ready executor every pushed operation comes to invoke its
\* completion callback, and the executor is idle again and again: no
\* current task stays for ever.
C37_EveryOperationCompletes ==
    /\ \A id \in 1..MaxLiveOps : (nextId > id) ~> (id \in finished)
    /\ []<>(currentTask = NoTask)

\* the non-primary indexes a fresh datastore has after loading these lines
LoadedDefs(lines) == IndexDefs(loadFromRawData(<<NewUniqueStringIndex>>, lines).ixs)

\* C38: ensureIndex or removeIndex has been called while the rewrite of a
\* compaction was in flight, and its appendFile has written its record, so
\* that the file loads to the indexes held in memory; the rename of the
\* compaction then leaves a file that still loads to the indexes held in
\* memory.
C38_IndexRecordSurvivesRewrite ==
    [][(/\ proc.pc = "write"
        /\ proc'.pc = "renamed"
        /\ currentTask.fn = "compact"
        /\ \A i \in 1..Len(io) : io[i].st = "written"
        /\ IndexDefs(indexes) # IndexDefs(proc.before)
        /\ LoadedDefs(datafile) = IndexDefs(indexes))
       => LoadedDefs(datafile') = IndexDefs(indexes')]_vars

\* the documents a fresh datastore has after loading these lines
LoadedDocs(lines) == DocsOf(loadFromRawData(<<NewUniqueStringIndex>>, lines).ixs[1])

\* C39: a compaction that runs right after a loadDatabase on a loaded
\* datastore, with the memory empty of documents as a failed load leaves
\* it, does not take a document out of the data file.
C39_FailedLoadKeepsFile ==
    [][(/\ proc.pc = "write"
        /\ currentTask.fn = "compact"
        /\ lastFinishedTask.fn = "load"
        /\ isReady
        /\ getAllData(proc.before) = <<>>
        /\ proc'.pc = "renamed")
       => LoadedDocs(datafile') = LoadedDocs(datafile)]_vars

\* C40: the second execution of a cursor against the same documents passes
\* to its callback what the first passed, and when the projection the
\* cursor was made with excludes _id, no document of the second execution
\* has an _id.
C40_SecondExecutionSame ==
    proc.pc = "executedTwice" =>
        /\ meta[2] = meta[1]
        /\ currentTask.given.id = "omit" =>
               \A i \in 1..Len(meta[2].docs) : meta[2].docs[i]._id = ""

====
